---- MODULE Spec2Model ----
(***************************************************************************)
(* Model of the import tool's core operations:                             *)
(*   - src/src/gomag_ui.py   import_file_async, fetch_categories_async     *)
(*   - src/src/fetcher.py    fetch_html_requests, fetch_html_playwright,   *)
(*                           looks_blocked_or_empty                        *)
(*   - src/src/fetch.py      fetch_html                                    *)
(*   - src/src/browser.py    render_html, render_html_sync                 *)
(*   - src/src/pipeline.py   _fetch_html, _merge, process_one_url          *)
(*   - src/src/extract_generic.py, src/src/extract_by_rules.py             *)
(*   - src/src/scrapers/generic.py  GenericScraper.parse                   *)
(*   - src/src/pricing.py, src/src/export_gomag.py, src/src/translate.py   *)
(*   - src/utils/translator.py, src/utils/gomag_api.py                     *)
(*   - src/scrapers/base_scraper.py  BaseScraper._get_page / _get_json     *)
(*   - src/app.py, src/app_1.py, src/app_simple.py  the session handlers   *)
(*                                                                         *)
(* One behaviour is one call of one operation (op, chosen in Init), or one *)
(* session / process: a sequence of calls on the same object.  Every       *)
(* await / statement that can raise has a failing outcome.  What the       *)
(* remote site answers (rows, inputs, bodies) is chosen by the step that   *)
(* reads it.                                                               *)
(***************************************************************************)
EXTENDS Integers, Sequences, FiniteSets, TLC

VARIABLES
    op,           \* the operation this behaviour runs
    pc,           \* position in the operation's code
    exc,          \* exception being propagated ("" = none)
    ret,          \* value being returned ("" = none yet)
    browsers,     \* browser processes launched by the active Playwright driver and still open
    ctxOpen,      \* a browser context created by _launch_ctx is open
    pwActive,     \* inside an "async with async_playwright()" block
    events,       \* history: the externally visible steps, in order
    before_snip,  \* import_file_async: first row of the import list before submission
    new_snip,     \* import_file_async: first row of the import list after submission
    n,            \* import_file_async: number of input[type=file] found
    i,            \* import_file_async: index of the next file input to try; extract_products: loop index
    uploaded,     \* import_file_async: a file input accepted the file
    has_name,     \* import_file_async: attachment confirmed
    clicked,      \* import_file_async: Start Import click succeeded
    tried,        \* history: attachment attempts, in order
    artifacts,    \* diagnostic files written under debug_artifacts/
    pw_ready,     \* os.environ["PW_CHROMIUM_READY"] == "1"
    installs,     \* runs of "playwright install chromium" in this process
    failedAt,     \* history: the statement that raised first ("" = none)
    force_playwright, \* _fetch_html: ImportSettings.force_playwright
    resp,         \* the last HTTP response received (status, body), NoResp before any
    html,         \* the HTML the operation works on
    method,       \* GenericScraper.parse: which fetch produced html
    blocked,      \* the operation classified the fetched HTML as blocked
    renders,      \* calls of the headless render (fetch_html_playwright / render_html)
    rendered,     \* the DOM captured by the headless render, before it is returned
    render_failed,\* GenericScraper.parse: render_html_sync raised
    draft,        \* GenericScraper.parse: a ProductDraft was built
    cats,         \* fetch_categories_async: the category names found
    cat_html,     \* fetch_categories_async: the page read by page.content()
    arg,          \* the arguments of the function this behaviour calls
    out,          \* the value that function returned
    by_rules,     \* process_one_url: result of extract_by_rules
    page,         \* process_one_url: what the parsed page holds (JSON-LD node, meta tags, text)
    generic,      \* process_one_url: result of extract_generic
    data,         \* process_one_url: the merged record
    products,     \* st.session_state.products
    cache,        \* ProductTranslator.cache
    categories_cache, \* GomagAPI.categories_cache
    platform,     \* the categories the remote platform holds
    retry         \* BaseScraper._get_page / _get_json: the retry argument

browserVars == <<browsers, ctxOpen, pwActive>>
importVars == <<before_snip, new_snip, n, i, uploaded, has_name, clicked, tried, artifacts>>
installVars == <<pw_ready, installs>>
fetchVars == <<force_playwright, resp, html, method, blocked, renders, rendered,
              render_failed, draft>>
pipeVars == <<by_rules, page, generic, data>>
catVars == <<cats, cat_html>>
pureVars == <<arg, out>>
sessionVars == <<products, cache, categories_cache, platform, retry>>

vars == <<op, pc, exc, ret, failedAt, browsers, ctxOpen, pwActive, events,
          before_snip, new_snip, n, i, uploaded, has_name, clicked, tried, artifacts,
          pw_ready, installs, force_playwright, resp, html, method, blocked, renders,
          rendered, render_failed, draft, cats, cat_html, arg, out, by_rules, page,
          generic, data,
          products, cache, categories_cache, platform, retry>>

----------------------------------------------------------------------------
(* Bounds of the model *)

\* most input[type=file] elements a page carries
MaxInputs == 2
\* rows of a category table, category anchors of a page, selector matches
MaxRows == 3
MaxAnchors == 2
MaxItems == 2

\* calls in one run (translations, installer calls, imports, intake steps)
MaxCalls == 3

\* cells in the template's header row
MaxHeaders == 3

----------------------------------------------------------------------------
(* Values *)

\* A table row's inner text, as its words; <<>> is the empty string.
EmptySnip == <<>>
Rows == { <<"17", "finalizat">>, <<"18", "finalizat">>, <<"18", "finalizat", "cu", "erori">> }
Snips == Rows \cup {EmptySnip}

\* Outcomes of import_file_async
NoNewImportMsg == "Start Import apasat, dar NU a aparut un import nou in lista."
OkMsg == "OK: import nou detectat in lista."

\* RuntimeError messages raised by import_file_async itself
ErrNoInput == "Nu exista input[type=file] pe pagina /import/add (uploader custom)."
ErrNotUploaded == "Nu am putut incarca fisierul pe niciun input[type=file]."
ErrNotAttached == "Fisierul nu pare atasat (nu apare numele fisierului si input.files e gol)."
ErrNoStart == "Nu pot apasa 'Start Import' (nu gasesc butonul)."
\* RuntimeError messages raised by fetch_categories_async itself
ErrLoginPage == "Login Gomag a esuat sau sesiunea nu s-a pastrat (am ajuns inapoi la pagina de login)."
ErrNoCategories == "Nu am putut extrage categoriile (pagina s-a incarcat, dar nu am gasit tabelul/link-urile)."
\* any exception raised by Playwright (timeout, navigation error, closed target)
ErrPlaywright == "playwright_error"
\* Playwright's launch error when the browser binary is missing
ErrNoExecutable == "Executable doesn't exist"
ErrInstall == "playwright_install_failed"
\* requests / cloudscraper: connection error, timeout
ErrRequest == "requests_exception"
\* raise_for_status
ErrHTTP == "HTTPError"

Terminal == {"returned", "raised"}

\* before a call: no arguments, no result
NoArg == "<no argument>"
NoOut == "<no result>"

----------------------------------------------------------------------------
(* Control transfer *)

\* the next statement
Goto(to) == pc' = to /\ exc' = exc /\ failedAt' = failedAt

\* the statement `at` raises e; control goes to the handler `to`
Raise(e, at, to) ==
    /\ exc' = e
    /\ failedAt' = IF failedAt = "" THEN at ELSE failedAt
    /\ pc' = to

\* after the finally block and the async-with exit: return or re-raise
Outcome(e) == IF e = "" THEN "returned" ELSE "raised"

\* "async with async_playwright() as p" exit: Playwright's __aexit__ stops the
\* driver process, and the stopping driver closes every browser it launched
\* that is still open.
PlaywrightStopLeak(b) == b
PlaywrightStop(b) == 0

----------------------------------------------------------------------------
(* _ensure_playwright_chromium_installed (src/src/gomag_ui.py:25-46, the same    *)
(* code in src/src/browser.py:17-40)                                          *)

\* line 30: nothing runs when PW_CHROMIUM_READY is "1"; lines 37-42: else one run
\* of "playwright install chromium"
InstallsAfter(ready, count) == IF ready THEN count ELSE count + 1

\* lines 43-46: the flag is set only after an installer run that exited 0 (`ok`);
\* the function raises RuntimeError exactly when the flag is still unset
ReadyAfter(ready, ok) == ready \/ ok

----------------------------------------------------------------------------
(* _launch_ctx (src/src/gomag_ui.py:49-72), called by fetch_categories_async and
   import_file_async right after entering "async with async_playwright()" and
   before their try block: an exception here skips their finally. *)

IsImport == op = "import_file_async"
IsCategories == op = "fetch_categories_async"
IsGomag == IsImport \/ IsCategories

\* lines 181 / 254: _ensure_playwright_chromium_installed()
GomagEnsure ==
    /\ IsGomag /\ pc = "ensure"
    /\ \E ok \in BOOLEAN :
          /\ installs' = InstallsAfter(pw_ready, installs)
          /\ pw_ready' = ReadyAfter(pw_ready, ok)
          /\ IF pw_ready' THEN Goto("launch") ELSE Raise(ErrInstall, "install", "raised")
    /\ UNCHANGED <<op, ret, browserVars, events, importVars, fetchVars, catVars, sessionVars, pureVars, pipeVars>>

\* line 50: p.chromium.launch
LaunchCtxBrowser ==
    /\ IsGomag /\ pc = "launch"
    /\ pwActive' = TRUE
    /\ \/ browsers' = browsers + 1 /\ Goto("new_context")
       \/ browsers' = browsers /\ Raise(ErrPlaywright, "launch", "aexit")
    /\ UNCHANGED <<op, ret, ctxOpen, events, importVars, installVars, fetchVars, catVars, sessionVars, pureVars,
                   pipeVars>>

\* lines 59-72: browser.new_context, context.new_page, page.add_init_script
LaunchCtxContext ==
    /\ IsGomag /\ pc = "new_context"
    /\ \/ ctxOpen' = TRUE /\ Goto("login")
       \/ ctxOpen' = TRUE /\ Raise(ErrPlaywright, "new_page", "aexit")
       \/ ctxOpen' = ctxOpen /\ Raise(ErrPlaywright, "new_context", "aexit")
    /\ UNCHANGED <<op, ret, browsers, pwActive, events, importVars, installVars,
                   fetchVars, catVars, sessionVars, pureVars, pipeVars>>

\* lines 240-242 / 429-431: finally: await context.close(); await browser.close()
\* An exception raised inside the finally block replaces the pending exception
\* and the pending return value.
GomagFinally ==
    /\ IsGomag /\ pc = "finally"
    /\ \/ /\ ctxOpen' = FALSE
          /\ \/ browsers' = browsers - 1 /\ ret' = ret /\ Goto("aexit")
             \/ browsers' = browsers /\ ret' = "" /\ Raise(ErrPlaywright, "browser.close", "aexit")
       \/ /\ ctxOpen' = ctxOpen
          /\ browsers' = browsers
          /\ ret' = ""
          /\ Raise(ErrPlaywright, "context.close", "aexit")
    /\ UNCHANGED <<op, pwActive, events, importVars, installVars, fetchVars, catVars, sessionVars, pureVars,
                   pipeVars>>

\* lines 188 / 261: leaving "async with async_playwright() as p"
GomagAexit ==
    /\ IsGomag /\ pc = "aexit"
    /\ browsers' = PlaywrightStop(browsers)
    /\ ctxOpen' = FALSE
    /\ pwActive' = FALSE
    /\ pc' = Outcome(exc)
    /\ UNCHANGED <<op, exc, ret, failedAt, events, importVars, installVars, fetchVars,
                   catVars, sessionVars, pureVars, pipeVars>>

\* what every step of the try block leaves alone
GomagFrame == UNCHANGED <<op, browserVars, installVars, fetchVars, pipeVars>>

----------------------------------------------------------------------------
(* import_file_async (src/src/gomag_ui.py:249-431), the body of its try block *)

\* line 264: await _login(page, creds, cfg)
ImportLoginSwallowed ==
    /\ IsImport /\ pc = "login"
    /\ \/ events' = Append(events, "login") /\ Goto("before")
       \/ events' = events /\ Goto("before")
    /\ ret' = ret
    /\ UNCHANGED <<importVars, catVars, sessionVars, pureVars>>
    /\ GomagFrame

ImportLogin ==
    /\ IsImport /\ pc = "login"
    /\ \/ events' = Append(events, "login") /\ Goto("before")
       \/ events' = events /\ Raise(ErrPlaywright, "login", "finally")
    /\ ret' = ret
    /\ UNCHANGED <<importVars, catVars, sessionVars, pureVars>>
    /\ GomagFrame

\* lines 266-273: first row of the import list before submission; an exception
\* (navigation, no row within 4 s) leaves ""
ImportBeforeSnapshot ==
    /\ IsImport /\ pc = "before"
    /\ \E row \in Snips : before_snip' = row
    /\ events' = Append(events, "before_snapshot")
    /\ Goto("goto_add")
    /\ UNCHANGED <<ret, new_snip, n, i, uploaded, has_name, clicked, tried, artifacts, catVars, sessionVars, pureVars>>
    /\ GomagFrame

\* lines 275-309: open the add page, pick the import type (best effort), force
\* hidden inputs visible (best effort), count input[type="file"] of the page
ImportCountInputs ==
    /\ IsImport /\ pc = "goto_add"
    /\ \/ \E k \in 0..MaxInputs :
            /\ n' = k
            /\ IF k = 0 THEN Raise(ErrNoInput, "no_input", "finally")
                        ELSE Goto("try_input")
       \/ n' = n /\ Raise(ErrPlaywright, "goto_add", "finally")
    /\ UNCHANGED <<ret, events, before_snip, new_snip, i, uploaded, has_name, clicked,
                   tried, artifacts, catVars, sessionVars, pureVars>>
    /\ GomagFrame

\* one attachment attempt: which control was used, and whether it took the file
Attempt(k, ok) == [strategy |-> "file_input", index |-> k, ok |-> ok]

\* lines 312-322, without the break: every input is tried
ImportTryInputNoBreak ==
    /\ IsImport /\ pc = "try_input"
    /\ IF i < n
         THEN /\ \E ok \in BOOLEAN :
                   /\ tried' = Append(tried, Attempt(i, ok))
                   /\ uploaded' = (uploaded \/ ok)
                   /\ events' = IF ok /\ ~uploaded THEN Append(events, "attach") ELSE events
              /\ i' = i + 1
              /\ Goto(pc)
         ELSE /\ IF uploaded THEN Goto("confirm")
                             ELSE Raise(ErrNotUploaded, "not_uploaded", "finally")
              /\ UNCHANGED <<tried, uploaded, events, i>>
    /\ UNCHANGED <<ret, before_snip, new_snip, n, has_name, clicked, artifacts, catVars, sessionVars, pureVars>>
    /\ GomagFrame

\* lines 312-322: for i in range(n): try set_input_files(...); uploaded = True;
\* break / except: continue; then "if not uploaded: raise"
ImportTryInput ==
    /\ IsImport /\ pc = "try_input"
    /\ IF i < n
         THEN \/ /\ tried' = Append(tried, Attempt(i, TRUE))
                 /\ uploaded' = TRUE
                 /\ events' = Append(events, "attach")
                 /\ i' = i
                 /\ Goto("confirm")
              \/ /\ tried' = Append(tried, Attempt(i, FALSE))
                 /\ uploaded' = uploaded
                 /\ events' = events
                 /\ i' = i + 1
                 /\ Goto(pc)
         ELSE /\ Raise(ErrNotUploaded, "not_uploaded", "finally")
              /\ UNCHANGED <<tried, uploaded, events, i>>
    /\ UNCHANGED <<ret, before_snip, new_snip, n, has_name, clicked, artifacts, catVars, sessionVars, pureVars>>
    /\ GomagFrame

\* lines 347-354 and 414-421: best-effort screenshot + HTML of the page; an
\* exception while saving is swallowed
SaveDebug(name, saved) ==
    IF saved THEN artifacts \cup {<<name, "png">>, <<name, "html">>} ELSE artifacts

\* lines 324-355, without the abort: the click follows whatever the check found
ImportConfirmNoAbort ==
    /\ IsImport /\ pc = "confirm"
    /\ \E nameVisible \in BOOLEAN, hasFiles \in BOOLEAN :
          /\ has_name' = (nameVisible \/ hasFiles)
          /\ events' = IF has_name' THEN Append(events, "confirm") ELSE events
    /\ artifacts' = artifacts
    /\ Goto("click")
    /\ UNCHANGED <<ret, before_snip, new_snip, n, i, uploaded, clicked, tried, catVars, sessionVars, pureVars>>
    /\ GomagFrame

\* lines 324-355: has_name = the file name is shown on the page, or the first
\* file input reports files; otherwise save the debug artifacts and raise
ImportConfirm ==
    /\ IsImport /\ pc = "confirm"
    /\ \E nameVisible \in BOOLEAN, hasFiles \in BOOLEAN, saved \in BOOLEAN :
          /\ has_name' = (nameVisible \/ hasFiles)
          /\ IF has_name'
               THEN /\ events' = Append(events, "confirm")
                    /\ artifacts' = artifacts
                    /\ Goto("click")
               ELSE /\ events' = events
                    /\ artifacts' = SaveDebug("gomag_upload_not_attached", saved)
                    /\ Raise(ErrNotAttached, "not_attached", "finally")
    /\ UNCHANGED <<ret, before_snip, new_snip, n, i, uploaded, clicked, tried, catVars, sessionVars, pureVars>>
    /\ GomagFrame

\* lines 384-394 with a retry loop around the click
ImportClickRetry ==
    /\ IsImport /\ pc = "click"
    /\ \/ /\ events' = Append(events, "click")
          /\ \/ clicked' = TRUE /\ Goto("after")
             \/ clicked' = FALSE /\ Goto(pc)
       \/ /\ events' = events
          /\ clicked' = FALSE
          /\ Raise(ErrNoStart, "click", "finally")
    /\ UNCHANGED <<ret, before_snip, new_snip, n, i, uploaded, has_name, tried, artifacts,
                   catVars, sessionVars, pureVars>>
    /\ GomagFrame

\* lines 357-394: untick the VAT columns and scroll (best effort), locate Start
\* Import, call btn.click once; "if not clicked: raise"
ImportClick ==
    /\ IsImport /\ pc = "click"
    /\ \/ \* the button is there and btn.click(...) is called: it succeeds or raises
          /\ events' = Append(events, "click")
          /\ \/ clicked' = TRUE /\ Goto("after")
             \/ clicked' = FALSE /\ Raise(ErrNoStart, "click", "finally")
       \/ \* btn.count() is 0, or locating the button raised
          /\ events' = events
          /\ clicked' = FALSE
          /\ Raise(ErrNoStart, "click", "finally")
    /\ UNCHANGED <<ret, before_snip, new_snip, n, i, uploaded, has_name, tried, artifacts,
                   catVars, sessionVars, pureVars>>
    /\ GomagFrame

\* lines 396-410: reopen the import list (not guarded: may raise) and read its
\* first row ("" when that raises)
ImportAfterSnapshot ==
    /\ IsImport /\ pc = "after"
    /\ \/ /\ \E row \in Snips : new_snip' = row
          /\ events' = Append(events, "after_snapshot")
          /\ Goto("verify")
       \/ /\ new_snip' = new_snip
          /\ events' = events
          /\ Raise(ErrPlaywright, "goto_list", "finally")
    /\ UNCHANGED <<ret, before_snip, n, i, uploaded, has_name, clicked, tried, artifacts,
                   catVars, sessionVars, pureVars>>
    /\ GomagFrame

\* line 412: before_snip and new_snip and new_snip == before_snip
NoNewEntry(b, a) == b # EmptySnip /\ a # EmptySnip /\ a = b

\* lines 412-428: the returned string
ImportVerify ==
    /\ IsImport /\ pc = "verify"
    /\ IF NoNewEntry(before_snip, new_snip)
         THEN /\ \E saved \in BOOLEAN : artifacts' = SaveDebug("gomag_no_new_import", saved)
              /\ ret' = NoNewImportMsg
         ELSE /\ artifacts' = artifacts
              /\ ret' = OkMsg
    /\ Goto("finally")
    /\ UNCHANGED <<events, before_snip, new_snip, n, i, uploaded, has_name, clicked, tried,
                   catVars, sessionVars, pureVars>>
    /\ GomagFrame

----------------------------------------------------------------------------
(* Category names (src/src/gomag_ui.py:100-146). A text is a sequence of tokens:
   words, the "ID:" annotation mark, and WS for one whitespace character. *)

WS == "_"
IdMark == "ID:"
\* a word of 80 characters
LongWord == "Articole-promotionale-personalizate-pentru-evenimente-si-campanii-publicitare-RO"

\* str.lower() on one token
Lower(tok) == CASE tok \in {"Genti", "GENTI"} -> "genti"
                [] tok = "Pixuri" -> "pixuri"
                [] tok = "Metalice" -> "metalice"
                [] tok = "Categorie" -> "categorie"
                [] tok = "Actiuni" -> "actiuni"
                [] tok = "ID:" -> "id:"
                [] OTHER -> tok

LowerText(t) == [k \in 1..Len(t) |-> Lower(t[k])]

\* len() of one token, in characters
TokLen(tok) == CASE tok = LongWord -> 80
                 [] tok = WS -> 1
                 [] tok = "7" -> 1
                 [] tok = "ID:" -> 3
                 [] tok \in {"Genti", "GENTI", "genti"} -> 5
                 [] tok = "Pixuri" -> 6
                 [] tok = "Actiuni" -> 7
                 [] tok = "Metalice" -> 8
                 [] OTHER -> 9

RECURSIVE TextLen(_)
TextLen(t) == IF t = <<>> THEN 0 ELSE TokLen(Head(t)) + TextLen(Tail(t))

\* str.strip()
RECURSIVE LStrip(_)
LStrip(t) == IF t # <<>> /\ Head(t) = WS THEN LStrip(Tail(t)) ELSE t

RECURSIVE RStrip(_)
RStrip(t) == IF t # <<>> /\ t[Len(t)] = WS THEN RStrip(SubSeq(t, 1, Len(t) - 1)) ELSE t

Strip(t) == RStrip(LStrip(t))

\* re.sub(r"\s+", " ", x)
RECURSIVE CollapseWs(_)
CollapseWs(t) ==
    IF Len(t) < 2 THEN t
    ELSE IF t[1] = WS /\ t[2] = WS THEN CollapseWs(Tail(t))
    ELSE <<t[1]>> \o CollapseWs(Tail(t))

\* name.split("ID:")[0]
RECURSIVE BeforeIdMark(_)
BeforeIdMark(t) ==
    IF t = <<>> \/ Head(t) = IdMark THEN <<>>
    ELSE <<Head(t)>> \o BeforeIdMark(Tail(t))

\* lines 105-117, the loop with its `seen` set and `out` list
RECURSIVE DedupeLoop(_, _, _)
DedupeLoop(items, seen, acc) ==
    IF items = <<>> THEN acc
    ELSE LET x == CollapseWs(Strip(Head(items)))
             key == LowerText(x)
         IN  IF x = <<>> \/ key \in seen
               THEN DedupeLoop(Tail(items), seen, acc)
               ELSE DedupeLoop(Tail(items), seen \cup {key}, Append(acc, x))

_dedupe_keep_order(items) == DedupeLoop(items, {}, <<>>)

\* lines 126-134: a row of "table tbody tr" is the sequence of the texts of
\* its td cells (get_text(" ", strip=True)); rows without td are skipped
RECURSIVE TableNames(_)
TableNames(rows) ==
    IF rows = <<>> THEN <<>>
    ELSE LET tds == Head(rows)
             name == IF tds = <<>> THEN <<>> ELSE Strip(BeforeIdMark(Strip(tds[1])))
         IN  (IF name # <<>> THEN <<name>> ELSE <<>>) \o TableNames(Tail(rows))

\* line 143
AnchorMaxLen == 80

\* lines 141-144: texts of a[href*="/gomag/product/category"]
RECURSIVE AnchorNames(_)
AnchorNames(anchors) ==
    IF anchors = <<>> THEN <<>>
    ELSE LET txt == Head(anchors)
         IN  (IF txt # <<>> /\ TextLen(txt) < AnchorMaxLen THEN <<txt>> ELSE <<>>)
                \o AnchorNames(Tail(anchors))

\* lines 120-146
_parse_categories_from_html(h) ==
    LET table == _dedupe_keep_order(TableNames(h.rows))
    IN  IF table # <<>> THEN table
        ELSE _dedupe_keep_order(table \o AnchorNames(h.anchors))

\* lines 100-102: type="password" in s and ("login" in s or "autent" in s or
\* "parol" in s)
_looks_like_login(h) == h.password /\ h.loginWord

\* sequences over S of length at most k
SeqUpTo(S, k) == UNION { [1..m -> S] : m \in 0..k }

\* first-column cell texts
FirstCells == { <<>>, <<"Genti">>, <<"genti">>, <<"Genti", WS, IdMark, WS, "7">>,
                <<"Pixuri", WS, WS, "Metalice">>, <<"Categorie">>, <<IdMark, WS, "7">> }

\* rows of a table body: no td at all, one td, or a name cell and an action cell
TableRows == {<<>>} \cup { <<c>> : c \in FirstCells }
                    \cup { <<<<"Categorie">>, <<"Actiuni">>>> }

AnchorTexts == { <<>>, <<"Genti">>, <<"genti">>, <<LongWord>> }

\* the pages handed to _parse_categories_from_html
ParsePages == [rows : SeqUpTo(TableRows, MaxRows), anchors : SeqUpTo(AnchorTexts, MaxAnchors)]

\* the pages fetch_categories_async reads
CatPages == [rows : SeqUpTo(TableRows, 1), anchors : SeqUpTo(AnchorTexts, 1),
             password : BOOLEAN, loginWord : BOOLEAN, read : {TRUE}]

NoCatPage == [rows |-> <<>>, anchors |-> <<>>, password |-> FALSE, loginWord |-> FALSE,
              read |-> FALSE]

\* inner texts of the elements matching the configured item_selector
ItemTexts == { <<>>, <<WS, "Genti">>, <<"genti">> }

\* lines 206-212: txt = (await it.inner_text()).strip(); if txt: cats.append(txt)
RECURSIVE SelectorItems(_)
SelectorItems(items) ==
    IF items = <<>> THEN <<>>
    ELSE LET txt == Strip(Head(items))
         IN  (IF txt # <<>> THEN <<txt>> ELSE <<>>) \o SelectorItems(Tail(items))

----------------------------------------------------------------------------
(* fetch_categories_async (src/src/gomag_ui.py:179-242), the body of its try block *)

\* line 191: await _login(page, creds, cfg)
CatLogin ==
    /\ IsCategories /\ pc = "login"
    /\ \/ events' = Append(events, "login") /\ Goto("goto_list")
       \/ events' = events /\ Raise(ErrPlaywright, "login", "finally")
    /\ UNCHANGED <<ret, importVars, catVars, sessionVars, pureVars>>
    /\ GomagFrame

\* lines 193-215: open the category list; with an item_selector configured,
\* collect the inner texts of its matches (any exception leaves [])
CatSelector ==
    /\ IsCategories /\ pc = "goto_list"
    /\ \/ /\ \E configured \in BOOLEAN, items \in SeqUpTo(ItemTexts, MaxItems) :
                cats' = IF configured THEN _dedupe_keep_order(SelectorItems(items))
                                      ELSE <<>>
          /\ Goto(IF cats' = <<>> THEN "parse" ELSE "return")
       \/ cats' = cats /\ Raise(ErrPlaywright, "goto_list", "finally")
    /\ UNCHANGED <<ret, events, importVars, cat_html, pureVars, sessionVars>>
    /\ GomagFrame

\* lines 218-232: read the page HTML; a login page raises; otherwise
\* cats = _parse_categories_from_html(html)
CatParse ==
    /\ IsCategories /\ pc = "parse"
    /\ \/ \E h \in CatPages :
            /\ cat_html' = h
            /\ IF _looks_like_login(h)
                 THEN cats' = cats /\ Raise(ErrLoginPage, "login_page", "finally")
                 ELSE cats' = _parse_categories_from_html(h) /\ Goto("return")
       \/ UNCHANGED catVars /\ Raise(ErrPlaywright, "content", "finally")
    /\ UNCHANGED <<ret, events, importVars, pureVars, sessionVars>>
    /\ GomagFrame

\* lines 234-239 without the raise: whatever was found is returned
CatReturnAny ==
    /\ IsCategories /\ pc = "return"
    /\ ret' = "cats" /\ Goto("finally")
    /\ UNCHANGED <<events, importVars, catVars, sessionVars, pureVars>>
    /\ GomagFrame

\* lines 234-239: "if not cats: raise"; return cats
CatReturn ==
    /\ IsCategories /\ pc = "return"
    /\ IF cats = <<>>
         THEN ret' = ret /\ Raise(ErrNoCategories, "no_categories", "finally")
         ELSE ret' = "cats" /\ Goto("finally")
    /\ UNCHANGED <<events, importVars, catVars, sessionVars, pureVars>>
    /\ GomagFrame

----------------------------------------------------------------------------
(* HTTP responses and page bodies *)

\* substrings of a lower-cased body that the classifiers look for
Markers == {"cf-browser-verification", "cloudflare", "attention required",
            "<title>just a moment", "captcha", "enable javascript", "cookie"}

\* the marker sets of the modelled bodies
MarkSets == { {}, {"captcha"}, {"cloudflare"}, {"cloudflare", "attention required"},
              {"enable javascript"}, {"cf-browser-verification"}, {"cookie"} }

\* body lengths around the classifiers' thresholds
Lens == {1499, 1500, 2000, 2001, 2499, 2500}

\* a body: its length in characters and the markers it contains
Bodies == [len : Lens, marks : MarkSets]

Statuses == {200, 403, 503}

NoResp == [status |-> 0, body |-> [len |-> 0, marks |-> {}]]
NoHtml == [len |-> 0, marks |-> {}]

\* requests.Response.raise_for_status: HTTPError for 4xx and 5xx
RaisesForStatus(status) == status >= 400 /\ status < 600

\* src/src/fetcher.py:20-27 looks_blocked_or_empty
FetcherMinLen == 2500
looks_blocked_or_empty(h) ==
    \/ h.len < FetcherMinLen
    \/ "cf-browser-verification" \in h.marks
    \/ ("cloudflare" \in h.marks /\ "attention required" \in h.marks)
    \/ "<title>just a moment" \in h.marks

\* src/src/fetch.py:14: r.status_code == 200 and len(r.text) > 2000
FetchMinLen == 2000
RequestsGoodEnough(r) == r.status = 200 /\ r.body.len > FetchMinLen

\* src/src/scrapers/generic.py:179-193: len(html) < 1500 or any marker in html.lower()
ParseMinLen == 1500
blocked_markers == {"enable javascript", "attention required", "access denied", "captcha",
                    "cloudflare", "cookie", "cookies", "consent", "please enable",
                    "for full functionality of this site"}
ParseBlocked(h) == h.len < ParseMinLen \/ h.marks \cap blocked_markers # {}

----------------------------------------------------------------------------
(* _fetch_html (src/src/pipeline.py:33-40) with fetch_html_requests and
   fetch_html_playwright (src/src/fetcher.py:3-18) *)

IsFetchHtml == op = "_fetch_html"

FetchFrame == UNCHANGED <<op, events, importVars, installVars, catVars, sessionVars, pureVars, pipeVars, ctxOpen,
                          method, render_failed, draft>>

\* pipeline.py:34-35: if force_playwright: return await fetch_html_playwright(url)
FetchHtmlForce ==
    /\ IsFetchHtml /\ pc = "fetch" /\ force_playwright
    /\ Goto("fhp_launch")
    /\ UNCHANGED <<ret, browsers, pwActive, force_playwright, resp, html, blocked, renders,
                   rendered>>
    /\ FetchFrame

\* pipeline.py:37-40 and fetcher.py:3-8: requests.get; raise_for_status; the body
\* is returned unless looks_blocked_or_empty sends it to the browser
FetchHtmlRequests ==
    /\ IsFetchHtml /\ pc = "fetch" /\ ~force_playwright
    /\ \/ /\ Raise(ErrRequest, "requests.get", "raised")
          /\ UNCHANGED <<ret, resp, html, blocked>>
       \/ \E st \in Statuses, body \in Bodies :
            /\ resp' = [status |-> st, body |-> body]
            /\ IF RaisesForStatus(st)
                 THEN /\ Raise(ErrHTTP, "raise_for_status", "raised")
                      /\ UNCHANGED <<ret, html, blocked>>
                 ELSE /\ html' = body
                      /\ blocked' = looks_blocked_or_empty(body)
                      /\ IF blocked' THEN ret' = ret /\ Goto("fhp_launch")
                                     ELSE ret' = "html" /\ Goto("returned")
    /\ UNCHANGED <<browsers, pwActive, force_playwright, renders, rendered>>
    /\ FetchFrame

\* fetcher.py:12-13: enter async_playwright(); p.chromium.launch(headless=True)
FhpLaunch ==
    /\ IsFetchHtml /\ pc = "fhp_launch"
    /\ pwActive' = TRUE
    /\ renders' = renders + 1
    /\ \/ browsers' = browsers + 1 /\ Goto("fhp_page")
       \/ browsers' = browsers /\ Raise(ErrPlaywright, "launch", "fhp_aexit")
    /\ UNCHANGED <<ret, force_playwright, resp, html, blocked, rendered>>
    /\ FetchFrame

\* fetcher.py:14-16: browser.new_page(); page.goto(..., timeout=60000); page.content()
FhpPage ==
    /\ IsFetchHtml /\ pc = "fhp_page"
    /\ \/ \E body \in Bodies : rendered' = body /\ Goto("fhp_close")
       \/ \E at \in {"new_page", "goto", "content"} :
            rendered' = rendered /\ Raise(ErrPlaywright, at, "fhp_aexit")
    /\ UNCHANGED <<ret, browsers, pwActive, force_playwright, resp, html, blocked, renders>>
    /\ FetchFrame

\* fetcher.py:17: await browser.close()
FhpClose ==
    /\ IsFetchHtml /\ pc = "fhp_close"
    /\ \/ browsers' = browsers - 1 /\ Goto("fhp_aexit")
       \/ browsers' = browsers /\ Raise(ErrPlaywright, "browser.close", "fhp_aexit")
    /\ UNCHANGED <<ret, pwActive, force_playwright, resp, html, blocked, renders, rendered>>
    /\ FetchFrame

\* fetcher.py:12/18 and pipeline.py:35/39-40: leave the async-with; the rendered
\* DOM becomes the result, or the exception propagates to the caller
FhpAexit ==
    /\ IsFetchHtml /\ pc = "fhp_aexit"
    /\ browsers' = PlaywrightStop(browsers)
    /\ pwActive' = FALSE
    /\ html' = IF exc = "" THEN rendered ELSE html
    /\ ret' = IF exc = "" THEN "html" ELSE ret
    /\ pc' = Outcome(exc)
    /\ UNCHANGED <<exc, failedAt, force_playwright, resp, blocked, renders, rendered>>
    /\ FetchFrame

----------------------------------------------------------------------------
(* GenericScraper.parse (src/src/scrapers/generic.py:174-251) with fetch_html
   (src/src/fetch.py:10-24), render_html_sync and render_html
   (src/src/browser.py:43-64) *)

IsParse == op = "GenericScraper.parse"

ParseFrame == UNCHANGED <<op, events, importVars, catVars, sessionVars, pureVars, pipeVars, ctxOpen,
                          force_playwright>>

\* fetch.py:12-17: requests.get; a 200 with more than 2000 characters is
\* returned; an exception or anything else falls through to cloudscraper
ParseRequests ==
    /\ IsParse /\ pc = "requests"
    /\ \/ /\ Goto("cloudscraper")
          /\ UNCHANGED <<resp, html, method>>
       \/ \E st \in Statuses, body \in Bodies :
            /\ resp' = [status |-> st, body |-> body]
            /\ IF RequestsGoodEnough(resp')
                 THEN html' = body /\ method' = "requests" /\ Goto("check")
                 ELSE html' = html /\ method' = method /\ Goto("cloudscraper")
    /\ UNCHANGED <<ret, browsers, pwActive, installVars, blocked, renders, rendered,
                   render_failed, draft>>
    /\ ParseFrame

\* fetch.py:19-24: scraper.get; raise_for_status; return r.text, "cloudscraper"
ParseCloudscraper ==
    /\ IsParse /\ pc = "cloudscraper"
    /\ \/ /\ Raise(ErrRequest, "scraper.get", "raised")
          /\ UNCHANGED <<resp, html, method>>
       \/ \E st \in Statuses, body \in Bodies :
            /\ resp' = [status |-> st, body |-> body]
            /\ IF RaisesForStatus(st)
                 THEN /\ Raise(ErrHTTP, "raise_for_status", "raised")
                      /\ UNCHANGED <<html, method>>
                 ELSE html' = body /\ method' = "cloudscraper" /\ Goto("check")
    /\ UNCHANGED <<ret, browsers, pwActive, installVars, blocked, renders, rendered,
                   render_failed, draft>>
    /\ ParseFrame

\* generic.py:193: len(html) < 1500 or any(mark in html.lower() ...)
ParseCheck ==
    /\ IsParse /\ pc = "check"
    /\ blocked' = ParseBlocked(html)
    /\ Goto(IF blocked' THEN "rh_launch" ELSE "build")
    /\ UNCHANGED <<ret, browsers, pwActive, installVars, resp, html, method, renders,
                   rendered, render_failed, draft>>
    /\ ParseFrame

\* browser.py:44-45: enter async_playwright(); p.chromium.launch(headless=True)
RhLaunch ==
    /\ IsParse /\ pc = "rh_launch"
    /\ pwActive' = TRUE
    /\ renders' = renders + 1
    /\ \/ browsers' = browsers + 1 /\ Goto("rh_page")
       \/ \E e \in {ErrNoExecutable, ErrPlaywright} :
            browsers' = browsers /\ Raise(e, "launch", "rh_aexit")
    /\ UNCHANGED <<ret, installVars, resp, html, method, blocked, rendered, render_failed,
                   draft>>
    /\ ParseFrame

\* browser.py:46-49: new_page; goto; wait_for_timeout; content
RhPage ==
    /\ IsParse /\ pc = "rh_page"
    /\ \/ \E body \in Bodies : rendered' = body /\ Goto("rh_close")
       \/ \E at \in {"new_page", "goto", "content"} :
            rendered' = rendered /\ Raise(ErrPlaywright, at, "rh_aexit")
    /\ UNCHANGED <<ret, browsers, pwActive, installVars, resp, html, method, blocked,
                   renders, render_failed, draft>>
    /\ ParseFrame

\* browser.py:50: await browser.close()
RhClose ==
    /\ IsParse /\ pc = "rh_close"
    /\ \/ browsers' = browsers - 1 /\ Goto("rh_aexit")
       \/ browsers' = browsers /\ Raise(ErrPlaywright, "browser.close", "rh_aexit")
    /\ UNCHANGED <<ret, pwActive, installVars, resp, html, method, blocked, renders,
                   rendered, render_failed, draft>>
    /\ ParseFrame

\* browser.py:44/51: leave the async-with of render_html
RhAexit ==
    /\ IsParse /\ pc = "rh_aexit"
    /\ browsers' = PlaywrightStop(browsers)
    /\ pwActive' = FALSE
    /\ Goto("rh_sync")
    /\ UNCHANGED <<ret, installVars, resp, html, method, blocked, renders, rendered,
                   render_failed, draft>>
    /\ ParseFrame

\* browser.py:56-64 and generic.py:194-198: render_html_sync returns the DOM
\* (html, method = ..., "playwright"); on a missing-browser error of the first
\* render it installs Chromium and renders once more; any exception that leaves
\* render_html_sync is passed over by parse, which keeps the fetched html
RenderSyncResult ==
    /\ IsParse /\ pc = "rh_sync"
    /\ IF exc = ""
         THEN /\ html' = rendered /\ method' = "playwright"
              /\ Goto("build")
              /\ UNCHANGED <<installVars, render_failed>>
         ELSE IF exc = ErrNoExecutable /\ renders = 1
           THEN \E ok \in BOOLEAN :
                  /\ installs' = InstallsAfter(pw_ready, installs)
                  /\ pw_ready' = ReadyAfter(pw_ready, ok)
                  /\ IF pw_ready'
                       THEN /\ exc' = "" /\ pc' = "rh_launch"
                            /\ render_failed' = render_failed
                       ELSE /\ exc' = "" /\ pc' = "build"
                            /\ render_failed' = TRUE
                  /\ UNCHANGED <<failedAt, html, method>>
           ELSE /\ render_failed' = TRUE
                /\ exc' = "" /\ pc' = "build"
                /\ UNCHANGED <<failedAt, html, method, installVars>>
    /\ UNCHANGED <<ret, browsers, pwActive, resp, blocked, renders, rendered, draft>>
    /\ ParseFrame

\* generic.py:200-251: parse html and return the ProductDraft
ParseBuild ==
    /\ IsParse /\ pc = "build"
    /\ draft' = TRUE
    /\ ret' = "ProductDraft"
    /\ Goto("returned")
    /\ UNCHANGED <<browsers, pwActive, installVars, resp, html, method, blocked, renders,
                   rendered, render_failed>>
    /\ ParseFrame

----------------------------------------------------------------------------
(* Extraction and merge of process_one_url (src/src/pipeline.py:42-105) *)

IsProcess == op = "process_one_url"

\* Python's None where a string is expected, and where a float is expected
NoneV == "<None>"
NoPrice == -1

\* the empty dict's record, before any extractor ran
NoRecord == [title |-> NoneV, sku |-> NoneV, description |-> NoneV, images |-> <<>>,
             price_val |-> NoPrice, price_cur |-> NoneV]

\* float(str(price).replace(",", ".")), in cents; NoPrice where float() raises
ToFloat(s) == CASE s = "49,99" -> 4999
                [] s = "49.99" -> 4999
                [] s = "12.50" -> 1250
                [] OTHER -> NoPrice

\* str.strip() on a string with blanks
RECURSIVE StripStr(_)
StripStr(s) ==
    IF Len(s) > 0 /\ SubSeq(s, 1, 1) = " " THEN StripStr(SubSeq(s, 2, Len(s)))
    ELSE IF Len(s) > 0 /\ SubSeq(s, Len(s), Len(s)) = " "
           THEN StripStr(SubSeq(s, 1, Len(s) - 1))
    ELSE s

\* str.upper on the currency codes, the product codes and the hex digests
Upper(s) == CASE s = "eur" -> "EUR"
              [] s = "ron" -> "RON"
              [] s = "ab-123" -> "AB-123"
              [] s = "mo8317" -> "MO8317"
              [] s = "0db5ad18ee" -> "0DB5AD18EE"
              [] s = "7b922bf9be" -> "7B922BF9BE"
              [] s = "69caab02a0" -> "69CAAB02A0"
              [] s = "b043fded77" -> "B043FDED77"
              [] s = "5eaab652ac" -> "5EAAB652AC"
              [] OTHER -> s

\* product URLs; only the last one carries a product code in its path
PlainUrls == {"https://shop.example.com/pen/blue", "http://a.ro/p/1",
              "https://b.ro/cat/x-1", "https://b.ro/cat/x-2"}
CodeUrl == "https://shop.example.com/p/mo8317-pix"
Urls == PlainUrls \cup {CodeUrl}

\* extract_generic.py:6: hashlib.sha1(url.encode("utf-8")).hexdigest()[:10]
Sha1Hex10(url) ==
    CASE url = "https://shop.example.com/pen/blue" -> "0db5ad18ee"
      [] url = "http://a.ro/p/1" -> "7b922bf9be"
      [] url = "https://b.ro/cat/x-1" -> "69caab02a0"
      [] url = "https://b.ro/cat/x-2" -> "b043fded77"
      [] url = "https://shop.example.com/p/mo8317-pix" -> "5eaab652ac"

\* extract_generic.py:5-7
_hash_sku(url) == "IMP-" \o Upper(Sha1Hex10(url))

\* extract_generic.py:73-74: the product code the regular expression finds in
\* urlparse(url).path, None without a match
PathCode(url) == IF url = CodeUrl THEN "mo8317" ELSE NoneV

\* extract_generic.py:63-78 without the last line: nothing found, nothing returned
SkuFallbackNoHash(text_sku, url) ==
    IF text_sku # NoneV THEN Upper(StripStr(text_sku))
    ELSE IF PathCode(url) # NoneV THEN Upper(PathCode(url))
    ELSE ""

\* extract_generic.py:63-78; text_sku is the last group of the first pattern
\* matching the HTML (None without a match)
extract_sku_fallback(text_sku, url) ==
    IF text_sku # NoneV THEN Upper(StripStr(text_sku))
    ELSE IF PathCode(url) # NoneV THEN Upper(PathCode(url))
    ELSE _hash_sku(url)

\* extract_generic.py:140-146 without the `seen` test: only empty entries go
DedupKeepAll(images) == SelectSeq(images, LAMBDA x : x # "")

\* extract_generic.py:140-146: order-preserving dedup that also drops empty entries
RECURSIVE DedupFrom(_, _)
DedupFrom(images, seen) ==
    IF images = <<>> THEN <<>>
    ELSE IF Head(images) # "" /\ Head(images) \notin seen
           THEN <<Head(images)>> \o DedupFrom(Tail(images), seen \cup {Head(images)})
           ELSE DedupFrom(Tail(images), seen)
Dedup(images) == DedupFrom(images, {})

\* extract_by_rules.py:31-35: v = el.get(attr); if v: out.append(v.strip())
RECURSIVE AttrValues(_)
AttrValues(vals) ==
    IF vals = <<>> THEN <<>>
    ELSE (IF Head(vals) # NoneV /\ Head(vals) # "" THEN <<StripStr(Head(vals))>> ELSE <<>>)
            \o AttrValues(Tail(vals))

\* extract_by_rules.py:37-42: the dedup loop
RECURSIVE DedupExact(_, _)
DedupExact(xs, seen) ==
    IF xs = <<>> THEN <<>>
    ELSE IF Head(xs) \notin seen
           THEN <<Head(xs)>> \o DedupExact(Tail(xs), seen \cup {Head(xs)})
           ELSE DedupExact(Tail(xs), seen)

\* extract_by_rules.py:28-43, on the attribute values of the matched elements
css_attr_list(vals) == DedupExact(AttrValues(vals), {})

\* the image attribute of the elements matched by image_css, in document order
\* (<<>> without an image rule or without a match)
ImageAttrs == { <<>>, <<"r.jpg", " r.jpg", "", "r2.jpg", "r.jpg">> }

\* what extract_by_rules (src/src/extract_by_rules.py:45-70) can return: css_text
\* gives None without a match and "" for an empty element; the price fields come
\* from parse_price_from_text, both set or both None; image_attrs keeps the
\* attribute values css_attr_list worked on
RulesOutputs ==
    { [title |-> t, sku |-> s, description |-> d, images |-> css_attr_list(at),
       price_val |-> pr[1], price_cur |-> pr[2], image_attrs |-> at] :
        t \in {"", "Rules title"}, s \in {NoneV, "R-1"}, d \in {NoneV, "Rules desc"},
        at \in ImageAttrs, pr \in {<<NoPrice, NoneV>>, <<1250, "EUR">>} }

\* the JSON-LD Product node of a page (find_product_ld), or its absence. image:
\* the strings of p["image"] (one for a string, the string members of a list);
\* offers: the price and priceCurrency of an offers dict
NoProductLd == [present |-> FALSE, name |-> NoneV, sku |-> NoneV, description |-> NoneV,
                image |-> <<>>, price |-> NoneV, priceCurrency |-> NoneV]
BareLd == [NoProductLd EXCEPT !.present = TRUE]
RichLd == [present |-> TRUE, name |-> "LD name", sku |-> "LD-1", description |-> "LD desc",
           image |-> <<"l.jpg", "", "l.jpg">>, price |-> "49,99", priceCurrency |-> "eur"]

\* pages that differ in what they offer as SKU and title: the JSON-LD sku and
\* name (a sku may be empty or blank), the <title>, the code an SKU pattern finds
\* in the HTML, and the URL
SkuPages ==
    { [p |-> [NoProductLd EXCEPT !.present = TRUE, !.name = nm, !.sku = s],
       og_title |-> NoneV, page_title |-> pt, og_description |-> NoneV,
       og_images |-> <<>>, text_price |-> <<NoPrice, NoneV>>, text_sku |-> ts,
       url |-> u] :
        nm \in {NoneV, "LD name"}, s \in {NoneV, "", " ", "LD-1"},
        pt \in {NoneV, "", "Page title"}, ts \in {NoneV, "ab-123"},
        u \in {"https://shop.example.com/pen/blue", "http://a.ro/p/1", CodeUrl} }

\* the rest of the page that extract_generic reads: og: meta tags, <title>, the
\* price found in the visible text, what an SKU pattern finds in the HTML; and
\* the URL handed over with the page. BarePage offers nothing but an empty
\* Product node, RichPage a value in every source
BarePage == [p |-> BareLd, og_title |-> NoneV, page_title |-> NoneV,
             og_description |-> NoneV, og_images |-> <<>>,
             text_price |-> <<NoPrice, NoneV>>, text_sku |-> NoneV,
             url |-> "https://shop.example.com/pen/blue"]
RichPage == [p |-> RichLd, og_title |-> "OG title", page_title |-> "Page title",
             og_description |-> "OG desc", og_images |-> <<"og.jpg", "og.jpg">>,
             text_price |-> <<500, "RON">>, text_sku |-> NoneV,
             url |-> "https://shop.example.com/pen/blue"]

\* extract_generic fills each field from that field's sources alone (lines
\* 113-138), so the pages vary the sources of one field at a time, in every
\* combination, on a page that offers nothing else and on one that offers
\* everything else
TitlePages ==
    { [b EXCEPT !.p.name = nm, !.og_title = ot, !.page_title = pt] :
        b \in {BarePage, RichPage}, nm \in {NoneV, "LD name"},
        ot \in {NoneV, "OG title"}, pt \in {NoneV, "Page title"} }
DescriptionPages ==
    { [b EXCEPT !.p.description = d, !.og_description = od] :
        b \in {BarePage, RichPage}, d \in {NoneV, "LD desc"}, od \in {NoneV, "OG desc"} }
ImagePages ==
    { [b EXCEPT !.p.image = im, !.og_images = oi] :
        b \in {BarePage, RichPage}, im \in {<<>>, <<"l.jpg", "", "l.jpg">>, <<"">>},
        oi \in {<<>>, <<"og.jpg", "og.jpg">>} }
PricePages ==
    { [b EXCEPT !.p.price = of[1], !.p.priceCurrency = of[2], !.text_price = tp] :
        b \in {BarePage, RichPage},
        of \in {<<NoneV, NoneV>>, <<"abc", "EUR">>, <<"49,99", NoneV>>, <<"49,99", "eur">>},
        tp \in {<<NoPrice, NoneV>>, <<500, "RON">>} }

\* pages without a JSON-LD Product node, in every combination of the other sources
NoLdPages ==
    { [p |-> NoProductLd, og_title |-> ot, page_title |-> pt, og_description |-> od,
       og_images |-> oi, text_price |-> tp, text_sku |-> NoneV,
       url |-> "https://shop.example.com/pen/blue"] :
        ot \in {NoneV, "OG title"}, pt \in {NoneV, "Page title"},
        od \in {NoneV, "OG desc"}, oi \in {<<>>, <<"og.jpg", "og.jpg">>},
        tp \in {<<NoPrice, NoneV>>, <<500, "RON">>} }

Pages ==
    TitlePages \cup DescriptionPages \cup ImagePages \cup PricePages
        \cup NoLdPages \cup SkuPages
NoPage == [p |-> NoProductLd, og_title |-> NoneV, page_title |-> NoneV,
           og_description |-> NoneV, og_images |-> <<>>,
           text_price |-> <<NoPrice, NoneV>>, text_sku |-> NoneV, url |-> NoneV]

\* Python truthiness of a str-or-None
Truthy(v) == v # NoneV /\ v # ""

\* x or y
Or(x, y) == IF Truthy(x) THEN x ELSE y

\* extract_generic.py:102-111: offers.price / offers.priceCurrency, kept only when
\* both are there and float() accepts the price
LdPrice(p) ==
    IF p.present /\ p.price # NoneV /\ Truthy(p.priceCurrency) /\ ToFloat(p.price) # NoPrice
      THEN <<ToFloat(p.price), Upper(p.priceCurrency)>>
      ELSE <<NoPrice, NoneV>>

\* src/src/extract_generic.py:80-156
extract_generic(pg) ==
    LET p == pg.p
        title1 == IF p.present THEN Or(p.name, NoneV) ELSE NoneV
        sku1 == IF p.present THEN Or(p.sku, NoneV) ELSE NoneV
        desc1 == IF p.present THEN Or(p.description, NoneV) ELSE NoneV
        images1 == IF p.present THEN p.image ELSE <<>>
        price1 == LdPrice(p)
        title2 == IF Truthy(title1) THEN title1 ELSE Or(pg.og_title, NoneV)
        title3 == IF ~Truthy(title2) /\ pg.page_title # NoneV THEN pg.page_title ELSE title2
        desc2 == IF Truthy(desc1) THEN desc1 ELSE Or(pg.og_description, desc1)
        images2 == IF images1 = <<>> THEN pg.og_images ELSE images1
        price2 == IF price1[1] = NoPrice THEN pg.text_price ELSE price1
        sku2 == IF Truthy(sku1) THEN sku1 ELSE extract_sku_fallback(pg.text_sku, pg.url)
    IN [title |-> Or(title3, sku2), sku |-> sku2, description |-> Or(desc2, ""),
        images |-> Dedup(images2), price_val |-> price2[1], price_cur |-> price2[2]]

\* pipeline.py:29: v is not None and v != "" and v != [] and v != {}
FilledStr(v) == v # NoneV /\ v # ""
FilledList(v) == v # <<>>
FilledNum(v) == v # NoPrice

\* _merge with the arguments' roles swapped: secondary wins
MergeSecondaryFirst(primary, secondary) ==
    [title |-> IF FilledStr(secondary.title) THEN secondary.title ELSE primary.title,
     sku |-> IF FilledStr(secondary.sku) THEN secondary.sku ELSE primary.sku,
     description |-> IF FilledStr(secondary.description) THEN secondary.description
                     ELSE primary.description,
     images |-> IF FilledList(secondary.images) THEN secondary.images ELSE primary.images,
     price_val |-> IF FilledNum(secondary.price_val) THEN secondary.price_val
                   ELSE primary.price_val,
     price_cur |-> IF FilledStr(secondary.price_cur) THEN secondary.price_cur
                   ELSE primary.price_cur]

\* src/src/pipeline.py:25-31: out = dict(secondary); every non-empty value of
\* primary replaces the key's value
_merge(primary, secondary) ==
    [title |-> IF FilledStr(primary.title) THEN primary.title ELSE secondary.title,
     sku |-> IF FilledStr(primary.sku) THEN primary.sku ELSE secondary.sku,
     description |-> IF FilledStr(primary.description) THEN primary.description
                     ELSE secondary.description,
     images |-> IF FilledList(primary.images) THEN primary.images ELSE secondary.images,
     price_val |-> IF FilledNum(primary.price_val) THEN primary.price_val
                   ELSE secondary.price_val,
     price_cur |-> IF FilledStr(primary.price_cur) THEN primary.price_cur
                   ELSE secondary.price_cur]

\* pipeline.py:53: name = data.get("title") or data.get("sku") or "Produs"
BuildName(d) == Or(Or(d.title, d.sku), "Produs")

\* pipeline.py:54: sku = (data.get("sku") or "").strip() or "IMP-UNKNOWN"
BuildSku(d) == Or(StripStr(Or(d.sku, "")), "IMP-UNKNOWN")

\* pipeline.py:78-91: the ExtractedProduct (the fields taken from the page)
BuildProduct(d) == [url |-> page.url, name |-> BuildName(d), sku |-> BuildSku(d),
                    images |-> d.images]

ProcessFrame == UNCHANGED <<op, browserVars, events, importVars, installVars, fetchVars,
                            catVars, sessionVars, arg>>

\* pipeline.py:45: html = await _fetch_html(url, settings.force_playwright), which
\* returns the page or raises (its steps are the operation _fetch_html above)
ProcessFetch ==
    /\ IsProcess /\ pc = "fetch"
    /\ \/ Goto("rules")
       \/ Raise(ErrRequest, "_fetch_html", "raised")
    /\ UNCHANGED <<out, ret, pipeVars>>
    /\ ProcessFrame

\* pipeline.py:48: by_rules = extract_by_rules(domain, url, html)
ProcessRules ==
    /\ IsProcess /\ pc = "rules"
    /\ by_rules' \in RulesOutputs
    /\ Goto("generic")
    /\ UNCHANGED <<out, ret, page, generic, data>>
    /\ ProcessFrame

\* pipeline.py:49: generic = extract_generic(url, html)
ProcessGeneric ==
    /\ IsProcess /\ pc = "generic"
    /\ page' \in Pages
    /\ generic' = extract_generic(page')
    /\ Goto("merge")
    /\ UNCHANGED <<out, ret, by_rules, data>>
    /\ ProcessFrame

\* pipeline.py:50: data = _merge(by_rules, generic)
ProcessMerge ==
    /\ IsProcess /\ pc = "merge"
    /\ data' = _merge(by_rules, generic)
    /\ Goto("build")
    /\ UNCHANGED <<out, ret, by_rules, page, generic>>
    /\ ProcessFrame

\* pipeline.py:52-105: build the product, translate, price, gomag.product_write
\* (which may raise), return the summary
ProcessWrite ==
    /\ IsProcess /\ pc = "build"
    /\ out' = BuildProduct(data)
    /\ \/ ret' = "summary" /\ Goto("returned")
       \/ ret' = ret /\ Raise("gomag_error", "product_write", "raised")
    /\ UNCHANGED pipeVars
    /\ ProcessFrame

----------------------------------------------------------------------------
(* Pricing (src/src/pricing.py). Prices and the fallback are in hundredths of a
   leu (cents), exchange rates in hundredths, the markup in percent; products of
   the three are in millionths. *)

Micro == 1000000
\* line 33: 1.90
PriceFloor == 1900000
\* line 5: 0.90
X90 == 900000

\* Python evaluates the pricing in IEEE-754 doubles. Among the modelled
\* arguments these are the ones (price, rate, 100 + markup) whose double product
\* price * rate * (1 + markup / 100) is the double just above the decimal
\* product: 0.78 * 5.0 = 3.9000000000000004, 2.49 * 5.0 * 2.0 =
\* 24.900000000000002, 3.0 * 1.3 = 3.9000000000000004.
DoubleAbove == { <<78, 500, 100>>, <<249, 500, 200>>, <<300, 100, 130>> }

\* line 5: math.ceil(price - 0.90) + 0.90, in cents; `above` says that the double
\* price lies above the decimal value `price`
round_up_to_x90(price, above) ==
    LET q == price - X90
        ceil == (q + Micro - 1) \div Micro
    IN  (IF above /\ q % Micro = 0 THEN ceil + 1 ELSE ceil) * 100 + 90

\* an absent price (None)
NoSourcePrice == [present |-> FALSE, cents |-> 0]

\* lines 21-26: the rate applied to the source price
RateOf(currency, eur_ron, gbp_ron) ==
    CASE currency = "RON" -> 100
      [] currency = "EUR" -> eur_ron
      [] currency = "GBP" -> gbp_ron

\* lines 7-36 with the fallback run through the floor and the rounding as well
ComputeRoundedFallback(a) ==
    IF ~a.source_price.present \/ a.currency = NoneV
         \/ Upper(a.currency) \notin {"RON", "EUR", "GBP"}
      THEN round_up_to_x90(IF a.missing_price_fallback_ron * 10000 < PriceFloor
                             THEN PriceFloor
                             ELSE a.missing_price_fallback_ron * 10000, FALSE)
      ELSE LET rate == RateOf(Upper(a.currency), a.eur_ron, a.gbp_ron)
               final == a.source_price.cents * rate * (100 + a.markup_percent)
           IN  round_up_to_x90(IF final < PriceFloor THEN PriceFloor ELSE final, FALSE)

\* lines 7-36
compute_final_price_ron(a) ==
    IF ~a.source_price.present \/ a.currency = NoneV
      THEN a.missing_price_fallback_ron
      ELSE LET currency == Upper(a.currency)
           IN  IF currency \notin {"RON", "EUR", "GBP"}
                 THEN a.missing_price_fallback_ron
                 ELSE LET rate == RateOf(currency, a.eur_ron, a.gbp_ron)
                          factor == 100 + a.markup_percent
                          final == a.source_price.cents * rate * factor
                          above == <<a.source_price.cents, rate, factor>> \in DoubleAbove
                      IN  IF final < PriceFloor
                            THEN round_up_to_x90(PriceFloor, FALSE)
                            ELSE round_up_to_x90(final, above)

\* the arguments of the modelled calls
SourcePrices == {NoSourcePrice} \cup
                { [present |-> TRUE, cents |-> c] :
                    c \in {-100, 0, 1, 78, 190, 249, 300, 1000, 10000} }
Currencies == {NoneV, "RON", "EUR", "GBP", "eur", "USD"}
EurRates == {497, 500}
GbpRates == {590}
Markups == {-50, 0, 20, 30, 100}
Fallbacks == {-500, 0, 100, 1999}

PriceArgs == [source_price : SourcePrices, currency : Currencies, eur_ron : EurRates,
              gbp_ron : GbpRates, markup_percent : Markups,
              missing_price_fallback_ron : Fallbacks]

----------------------------------------------------------------------------
(* SKU shortening for the export (src/src/export_gomag.py:43-50) *)

\* line 43: max_len
MaxSkuLen == 30
\* line 47: hexdigest()[:8]
HashLen == 8

\* line 47: hashlib.sha1(sku.encode("utf-8")).hexdigest()[:8] of the modelled
\* over-length SKUs
Sha1Hex8(s) ==
    CASE s = "PROMOBOX-UMBRELLA-AUTOMATIC-BLUE-XL" -> "a2001329"
      [] s = "PROMOBOX-UMBRELLA-AUTOMATIC-BLUE-XXL-0001" -> "76f922e6"
      [] s = "PROMOBOX-UMBRELLA-AUTOMATIC-BLUE-XXL-0002" -> "ece37078"
      [] s = "PROMOBOX-UMBRELLA-AUTOMATIC-RED" -> "a3d4ef15"
      [] s = "PROMOBOX-UMBRELLA-AUTOMATIC-RED-XL" -> "a453e15b"
      [] s = "PROMOBOX-UMBRELLA-AUTOMATIC-RED-XXL" -> "c9d6abb7"
      [] s = "PSI-ROLLERBALL-METAL-22-BLUE-XL" -> "81b5728b"
      [] s = "PSI-ROLLERBALL-METAL-22-BLUE-XXL-0001" -> "ba6bcf78"
      [] s = "PSI-ROLLERBALL-METAL-22-BLUE-XXL-0002" -> "d4010e5d"
      [] s = "PSI-ROLLERBALL-METAL-22-RED-XXL" -> "dd1324e8"

\* lines 43-50 without the hash: the SKU is cut at max_len
ShortenTruncate(sku) ==
    LET s == StripStr(sku)
    IN  IF Len(s) <= MaxSkuLen THEN s ELSE SubSeq(s, 1, MaxSkuLen)

\* lines 43-50
_shorten_sku(sku) ==
    LET s == StripStr(sku)
    IN  IF Len(s) <= MaxSkuLen THEN s
        ELSE LET h == Sha1Hex8(s)
                 prefix_len == MaxSkuLen - 1 - Len(h)
             IN  SubSeq(s, 1, prefix_len) \o "-" \o h

\* the SKUs of the modelled calls: a product code, a variant suffix, and blanks
\* around the cell value
SkuStems == {"MO8317", "XD-P820.421-NAVY", "PSI-ROLLERBALL-METAL-22",
             "PROMOBOX-UMBRELLA-AUTOMATIC"}
SkuTails == {"", "-RD", "-RED", "-RED-XL", "-RED-XXL", "-BLUE-XL", "-BLUE-XXL-0001",
             "-BLUE-XXL-0002"}
Blanks == {"", " "}
SkuArgs == { l \o stem \o tail \o r :
               l \in Blanks, stem \in SkuStems, tail \in SkuTails, r \in Blanks }

----------------------------------------------------------------------------
(* Fallback SKUs of the scrapers (src/src/extract_generic.py:5-7,
   src/app.py:233-248, src/scrapers/universal_scraper.py:121) *)

\* the seed of str hashing, drawn by the interpreter at the start of each process
HashSeeds == {1, 2, 3}

\* hash(url) % 1000000 in a process with the given seed
PyHashMod(url, seed) ==
    CASE url = "https://shop.example.com/pen/blue" ->
             (CASE seed = 1 -> 729046 [] seed = 2 -> 773953 [] seed = 3 -> 475024)
      [] url = "http://a.ro/p/1" ->
             (CASE seed = 1 -> 195183 [] seed = 2 -> 46514 [] seed = 3 -> 236751)
      [] url = "https://b.ro/cat/x-1" ->
             (CASE seed = 1 -> 783196 [] seed = 2 -> 28236 [] seed = 3 -> 863286)
      [] url = "https://b.ro/cat/x-2" ->
             (CASE seed = 1 -> 903666 [] seed = 2 -> 445465 [] seed = 3 -> 850942)

\* the functions that make up a SKU for a URL without one
FallbackImpls == {"_hash_sku", "ProductScraper._extract_sku",
                  "UniversalScraper.extract_product"}

\* extract_generic.py:7: f"IMP-{h}"; app.py:248 and universal_scraper.py:121:
\* f"WEB{hash(url) % 1000000}"
FallbackSku(impl, url, seed) ==
    IF impl = "_hash_sku" THEN _hash_sku(url)
    ELSE "WEB" \o ToString(PyHashMod(url, seed))

FallbackArgs == [impl : FallbackImpls, url : PlainUrls]

\* one run of the program on the URL
FirstRun ==
    /\ op = "fallback_sku" /\ pc = "call"
    /\ \E seed \in HashSeeds : out' = <<FallbackSku(arg.impl, arg.url, seed)>>
    /\ pc' = "rerun"
    /\ UNCHANGED <<op, exc, ret, failedAt, arg, browserVars, events, importVars,
                   installVars, fetchVars, catVars, sessionVars, pipeVars>>

\* a later run of the program, in a new process, on the same URL
SecondRun ==
    /\ op = "fallback_sku" /\ pc = "rerun"
    /\ \E seed \in HashSeeds : out' = Append(out, FallbackSku(arg.impl, arg.url, seed))
    /\ pc' = "returned"
    /\ UNCHANGED <<op, exc, ret, failedAt, arg, browserVars, events, importVars,
                   installVars, fetchVars, catVars, sessionVars, pipeVars>>

----------------------------------------------------------------------------
(* Specifications *)

InitCommon ==
    /\ exc = ""
    /\ ret = ""
    /\ failedAt = ""
    /\ browsers = 0
    /\ ctxOpen = FALSE
    /\ pwActive = FALSE
    /\ events = <<>>
    /\ before_snip = EmptySnip
    /\ new_snip = EmptySnip
    /\ n = -1
    /\ i = 0
    /\ uploaded = FALSE
    /\ has_name = FALSE
    /\ clicked = FALSE
    /\ tried = <<>>
    /\ artifacts = {}
    /\ installs = 0
    /\ resp = NoResp
    /\ html = NoHtml
    /\ rendered = NoHtml
    /\ method = ""
    /\ blocked = FALSE
    /\ renders = 0
    /\ render_failed = FALSE
    /\ draft = FALSE
    /\ cats = <<>>
    /\ cat_html = NoCatPage
    /\ out = NoOut
    /\ by_rules = NoRecord
    /\ page = NoPage
    /\ generic = NoRecord
    /\ data = NoRecord
    /\ products = <<>>
    /\ cache = {}
    /\ categories_cache = NoneV
    /\ retry = 0

\* the first statement of each operation
Entry(o) == CASE o = "import_file_async" -> "ensure"
              [] o = "fetch_categories_async" -> "ensure"
              [] o = "_fetch_html" -> "fetch"
              [] o = "GenericScraper.parse" -> "requests"
              [] o = "process_one_url" -> "fetch"
              [] OTHER -> "call"

BrowserOps == {"import_file_async", "fetch_categories_async", "_fetch_html",
               "GenericScraper.parse"}

Init ==
    /\ op \in BrowserOps
    /\ pc = Entry(op)
    /\ force_playwright \in (IF op = "_fetch_html" THEN BOOLEAN ELSE {FALSE})
    /\ pw_ready \in BOOLEAN
    /\ arg = NoArg
    /\ platform = <<>>
    /\ InitCommon

Next ==
    \/ GomagEnsure
    \/ LaunchCtxBrowser
    \/ LaunchCtxContext
    \/ GomagFinally
    \/ GomagAexit
    \/ ImportLogin
    \/ ImportBeforeSnapshot
    \/ ImportCountInputs
    \/ ImportTryInput
    \/ ImportConfirm
    \/ ImportClick
    \/ ImportAfterSnapshot
    \/ ImportVerify
    \/ CatLogin
    \/ CatSelector
    \/ CatParse
    \/ CatReturn
    \/ FetchHtmlForce
    \/ FetchHtmlRequests
    \/ FhpLaunch
    \/ FhpPage
    \/ FhpClose
    \/ FhpAexit
    \/ ParseRequests
    \/ ParseCloudscraper
    \/ ParseCheck
    \/ RhLaunch
    \/ RhPage
    \/ RhClose
    \/ RhAexit
    \/ RenderSyncResult
    \/ ParseBuild

Spec == Init /\ [][Next]_vars

\* every await of the operations completes or times out: a run does not stop
\* while a step is possible
SpecLive == Spec /\ WF_vars(Next)

InitProcess ==
    /\ op = "process_one_url"
    /\ pc = Entry(op)
    /\ force_playwright = FALSE
    /\ pw_ready = FALSE
    /\ arg = NoArg
    /\ platform = <<>>
    /\ InitCommon

NextProcess ==
    \/ ProcessFetch
    \/ ProcessRules
    \/ ProcessGeneric
    \/ ProcessMerge
    \/ ProcessWrite

SpecProcess == InitProcess /\ [][NextProcess]_vars

----------------------------------------------------------------------------
(* Calls of single functions: the arguments are drawn at the start, one step
   computes the result *)

\* the state at the call of function f with arguments from Args
CallInit(f, Args) ==
    /\ op = f
    /\ pc = "call"
    /\ arg \in Args
    /\ force_playwright = FALSE
    /\ pw_ready = FALSE
    /\ platform = <<>>
    /\ InitCommon

\* f returns result
Return(f, result) ==
    /\ op = f /\ pc = "call"
    /\ out' = result
    /\ pc' = "returned"
    /\ UNCHANGED <<op, exc, ret, failedAt, arg, browserVars, events, importVars,
                   installVars, fetchVars, catVars, sessionVars, pipeVars>>

Returned(f) == op = f /\ pc = "returned"

\* _parse_categories_from_html(html)
InitParseCategories == CallInit("_parse_categories_from_html", ParsePages)
ParseCategories == Return("_parse_categories_from_html", _parse_categories_from_html(arg))
SpecParseCategories == InitParseCategories /\ [][ParseCategories]_vars

\* compute_final_price_ron(source_price, currency, eur_ron, gbp_ron, ...)
InitPrice == CallInit("compute_final_price_ron", PriceArgs)
ComputePrice == Return("compute_final_price_ron", compute_final_price_ron(arg))
SpecPrice == InitPrice /\ [][ComputePrice]_vars

\* _shorten_sku(sku)
InitShorten == CallInit("_shorten_sku", SkuArgs)
ShortenSku == Return("_shorten_sku", _shorten_sku(arg))
SpecShorten == InitShorten /\ [][ShortenSku]_vars

\* two runs of the program on a URL without a SKU
InitFallback == CallInit("fallback_sku", FallbackArgs)
NextFallback == FirstRun \/ SecondRun
SpecFallback == InitFallback /\ [][NextFallback]_vars

----------------------------------------------------------------------------
(* Translation (src/src/translate.py:43-62, used by process_one_url at
   src/src/pipeline.py:59-66, and src/utils/translator.py:16-56).  One behaviour
   is one run: a sequence of translation calls with the same secrets / the same
   ProductTranslator.  events logs the provider requests as <<provider, text>>,
   out the calls with what they returned. *)

\* the text a provider gives back for a text
Translated(provider, text) == <<provider, text>>

\* one provider request and how it ended
Request(provider, outcome) == [provider |-> provider, outcome |-> outcome]

\* translate.py:7-14: the DeepL request translates or raises
DeeplOutcomes == {"ok", "raise"}

\* translate.py:32-41: the OpenAI request translates, raises, or answers without
\* output text (line 41: out.strip() or text)
OpenaiOutcomes == {"ok", "raise", "empty"}

\* translate_to_ro that asks OpenAI before DeepL
TranslateOpenaiFirst(text, secrets, d, o) ==
    IF ~Truthy(text) THEN [requests |-> <<>>, result |-> text]
    ELSE IF Truthy(secrets.OPENAI_API_KEY) /\ o = "ok"
      THEN [requests |-> <<Request("openai", o)>>, result |-> Translated("openai", text)]
    ELSE LET first == IF Truthy(secrets.OPENAI_API_KEY)
                        THEN <<Request("openai", o)>> ELSE <<>>
         IN  IF Truthy(secrets.DEEPL_API_KEY)
               THEN [requests |-> first \o <<Request("deepl", d)>>,
                     result |-> IF d = "ok" THEN Translated("deepl", text) ELSE text]
               ELSE [requests |-> first, result |-> text]

\* translate.py:43-62, given how the DeepL request (d) and the OpenAI request (o)
\* would end: the requests made, in order, and the value returned
translate_to_ro(text, secrets, d, o) ==
    IF ~Truthy(text) THEN [requests |-> <<>>, result |-> text]
    ELSE IF Truthy(secrets.DEEPL_API_KEY) /\ d = "ok"
      THEN [requests |-> <<Request("deepl", d)>>, result |-> Translated("deepl", text)]
    ELSE LET first == IF Truthy(secrets.DEEPL_API_KEY)
                        THEN <<Request("deepl", d)>> ELSE <<>>
         IN  IF Truthy(secrets.OPENAI_API_KEY)
               THEN [requests |-> first \o <<Request("openai", o)>>,
                     result |-> IF o = "ok" THEN Translated("openai", text) ELSE text]
               ELSE [requests |-> first, result |-> text]

\* translator.py:28-30: the cached translation of text (NoneV when not cached)
Cached(text) ==
    IF \E e \in cache : e[1] = text THEN (CHOOSE e \in cache : e[1] = text)[2] ELSE NoneV

\* translator.py:22-56, given how the GoogleTranslator request (g) would end
_translate_text(text, g) ==
    IF ~Truthy(text) \/ StripStr(text) = ""
      THEN [requests |-> <<>>, result |-> text, cache |-> cache]
    ELSE IF Cached(text) # NoneV
      THEN [requests |-> <<>>, result |-> Cached(text), cache |-> cache]
    ELSE IF g = "ok"
      THEN [requests |-> <<Request("google", g)>>, result |-> Translated("google", text),
            cache |-> cache \cup {<<text, Translated("google", text)>>}]
      ELSE [requests |-> <<Request("google", g)>>, result |-> text, cache |-> cache]

\* the texts a run translates: product name, description, specification keys and values
Texts == {"", " ", "Color", "Size"}

\* the secrets dict: a key is absent, empty or set
Secrets == [DEEPL_API_KEY : {NoneV, "", "key"}, OPENAI_API_KEY : {NoneV, "", "key"}]

\* the calls made so far
Calls == IF out = NoOut THEN <<>> ELSE out

\* the provider requests of one call, as logged
Logged(text, requests) == [k \in 1..Len(requests) |-> <<requests[k].provider, text>>]

\* one call translate_to_ro(text, secrets) of the run (pipeline.py:60-65)
TranslateToRo ==
    /\ op = "translate_to_ro" /\ pc = "call"
    /\ Len(Calls) < MaxCalls
    /\ \E text \in Texts, d \in DeeplOutcomes, o \in OpenaiOutcomes :
          LET r == translate_to_ro(text, arg, d, o)
          IN  /\ events' = events \o Logged(text, r.requests)
              /\ out' = Append(Calls, [text |-> text, requests |-> r.requests,
                                       result |-> r.result])
    /\ UNCHANGED <<op, pc, exc, ret, failedAt, arg, browserVars, importVars, installVars,
                   fetchVars, catVars, sessionVars, pipeVars>>

\* one call translator._translate_text(text) of the run
TranslateText ==
    /\ op = "ProductTranslator._translate_text" /\ pc = "call"
    /\ Len(Calls) < MaxCalls
    /\ \E text \in Texts, g \in DeeplOutcomes :
          LET r == _translate_text(text, g)
          IN  /\ events' = events \o Logged(text, r.requests)
              /\ cache' = r.cache
              /\ out' = Append(Calls, [text |-> text, requests |-> r.requests,
                                       result |-> r.result])
    /\ UNCHANGED <<op, pc, exc, ret, failedAt, arg, browserVars, importVars, installVars,
                   fetchVars, catVars, products, categories_cache, platform, retry, pipeVars>>

InitTranslate ==
    \E f \in {"translate_to_ro", "ProductTranslator._translate_text"} : CallInit(f, Secrets)
NextTranslate == TranslateToRo \/ TranslateText
SpecTranslate == InitTranslate /\ [][NextTranslate]_vars

----------------------------------------------------------------------------
(* Export to the platform's template (src/src/export_gomag.py:18-40, 78-191).
   Only the column labels are modelled: a DataFrame is its sequence of labels. *)

\* export_gomag.py:29-40: the headers used when the template gives none
DefaultHeaders ==
    << "Cod Produs (SKU)", "Denumire Produs", "Descriere Produs",
       "Descriere Scurta a Produsului", "URL Poza de Produs", "Pret", "Moneda",
       "Stoc Cantitativ", "Activ in Magazin", "Categorie / Categorii" >>

\* assets/modelImport.xlsx cannot be read (line 27: except Exception)
NoTemplate == <<NoneV>>

\* export_gomag.py:18-40, on the cells of the template's first row
_load_template_headers(row) ==
    IF row = NoTemplate THEN DefaultHeaders
    ELSE LET headers == SelectSeq(row, Truthy)
         IN  IF headers # <<>> THEN headers ELSE DefaultHeaders

\* export_gomag.py:104-118: ensure() appends each missing template column to df
RECURSIVE Ensure(_, _)
Ensure(columns, wanted) ==
    IF wanted = <<>> THEN columns
    ELSE Ensure(IF \E k \in 1..Len(columns) : columns[k] = Head(wanted) THEN columns
                ELSE Append(columns, Head(wanted)), Tail(wanted))

\* pd.DataFrame raised: every value of the dict is a scalar (line 159)
ValueError == <<"ValueError">>

\* export_gomag.py:78-191: the column labels of the table returned.  DataFrame
\* input (line 159): the keys of a dict built over the headers, i.e. each header
\* once, in order of first occurrence.  List input (line 191): columns=headers.
to_gomag_dataframe(a) ==
    LET headers == _load_template_headers(a.template)
    IN  IF a.shape = "DataFrame"
          THEN LET df == Ensure(a.columns, DefaultHeaders)
               IN  IF \A k \in 1..Len(headers), j \in 1..Len(df) : headers[k] # df[j]
                     THEN ValueError
                     ELSE DedupExact(headers, {})
          ELSE headers

\* cells of the template's first row
TemplateCells == {NoneV, "Cod Produs (SKU)", "Pret", "Extra"}

\* the template's first row: unreadable, or up to MaxHeaders cells
TemplateRows == {NoTemplate} \cup (SeqUpTo(TemplateCells, MaxHeaders) \ {NoTemplate})

\* columns of the intermediate DataFrame
InputColumns == { <<>>, <<"sku", "title">>, <<"sku", "Extra", "note">>, <<"Pret", "category">> }

ExportArgs ==
    [template : TemplateRows, shape : {"list"}, columns : {<<>>}]
        \cup [template : TemplateRows, shape : {"DataFrame"}, columns : InputColumns]

InitExport == CallInit("to_gomag_dataframe", ExportArgs)
ToGomagDataframe == Return("to_gomag_dataframe", to_gomag_dataframe(arg))
SpecExport == InitExport /\ [][ToGomagDataframe]_vars

----------------------------------------------------------------------------
(* The app_1.py session: extract_products (src/app_1.py:1003-1084) and
   import_products (src/app_1.py:1086-1205) over st.session_state.products.
   A price is in hundredths, the currency rate too; `extracted` and `imports`
   are history fields: the price the scraper gave and the number of import
   runs that handled the product.  arg holds the import settings and the
   product list at the start of the running batch, events the products the
   batch has attempted with the outcome of the scrape. *)

\* app_1.py:357-372: a product as the intake stores it
PendingProduct(url) ==
    [url |-> url, status |-> "pending", price |-> 0, extracted |-> 0, imports |-> 0]

SessionUrls == <<"https://a.example/p1", "https://b.example/p2">>

\* ScraperFactory.scrape_url(url) with the translation (lines 1032-1037): a
\* product with or without a price, None, or an exception
ScrapeOutcomes == {[kind |-> "scraped", price |-> 0], [kind |-> "scraped", price |-> 1000],
                   [kind |-> "none", price |-> 0], [kind |-> "raise", price |-> 0]}

\* app_1.py:1122: original_price * (1 + markup / 100) * currency_rate
Marked(price, markup, currency_rate) ==
    (((price * (100 + markup)) \div 100) * currency_rate) \div 100

App1Frame ==
    UNCHANGED <<op, ret, failedAt, browserVars, before_snip, new_snip, n, uploaded, has_name,
                clicked, tried, artifacts, installVars, fetchVars, catVars, out, cache,
                categories_cache, platform, retry, pipeVars>>

App1Idle == op = "app_1" /\ pc \in {"idle", "done"}

\* lines 1005-1020: the batch starts unless there is nothing to process
ExtractStart ==
    /\ App1Idle
    /\ \E k \in 1..Len(products) : products[k].status # "success"
    /\ arg' = [arg EXCEPT !.start = products]
    /\ events' = <<>>
    /\ i' = 1
    /\ pc' = "loop"
    /\ UNCHANGED <<exc, products>>
    /\ App1Frame

\* one iteration of the loop whose exception propagates (no try around the scrape)
ExtractStepUnguarded ==
    /\ op = "app_1" /\ pc = "loop" /\ i <= Len(products)
    /\ i' = i + 1
    /\ IF products[i].status = "success"
         THEN UNCHANGED <<products, events, exc, pc>>
         ELSE \E s \in ScrapeOutcomes :
                 /\ events' = Append(events, <<i, s.kind>>)
                 /\ IF s.kind = "raise"
                      THEN /\ exc' = "scrape error" /\ pc' = "raised"
                           /\ UNCHANGED products
                      ELSE /\ products' = [products EXCEPT ![i] =
                                  IF s.kind = "scraped"
                                    THEN [@ EXCEPT !.status = "success", !.price = s.price,
                                                   !.extracted = s.price]
                                    ELSE [@ EXCEPT !.status = "error"]]
                           /\ UNCHANGED <<exc, pc>>
    /\ UNCHANGED arg
    /\ App1Frame

\* lines 1022-1072: one iteration of the loop
ExtractStep ==
    /\ op = "app_1" /\ pc = "loop" /\ i <= Len(products)
    /\ i' = i + 1
    /\ IF products[i].status = "success"
         THEN UNCHANGED <<products, events>>
         ELSE \E s \in ScrapeOutcomes :
                 /\ events' = Append(events, <<i, s.kind>>)
                 /\ products' = [products EXCEPT ![i] =
                        IF s.kind = "scraped"
                          THEN [@ EXCEPT !.status = "success", !.price = s.price,
                                         !.extracted = s.price]
                          ELSE [@ EXCEPT !.status = "error"]]
    /\ UNCHANGED <<exc, pc, arg>>
    /\ App1Frame

\* lines 1074-1084: the loop is over, the page is rerun
ExtractEnd ==
    /\ op = "app_1" /\ pc = "loop" /\ i > Len(products)
    /\ pc' = "done"
    /\ UNCHANGED <<exc, i, events, arg, products>>
    /\ App1Frame

\* lines 1094-1205, with gomag_api set: every product with status 'success' is
\* handled; lines 1120-1123 overwrite its price in the session's dict
ImportProducts ==
    /\ App1Idle
    /\ \E k \in 1..Len(products) : products[k].status = "success"
    /\ \A k \in 1..Len(products) : products[k].imports < MaxCalls
    /\ products' = [k \in 1..Len(products) |->
          IF products[k].status = "success"
            THEN [products[k] EXCEPT
                     !.price = IF @ # 0 THEN Marked(@, arg.markup, arg.currency_rate) ELSE @,
                     !.imports = @ + 1]
            ELSE products[k]]
    /\ pc' = "idle"
    /\ UNCHANGED <<exc, i, events, arg>>
    /\ App1Frame

\* the settings of the import form
ImportSettings == [markup : {0, 20}, currency_rate : {100, 500}, start : {<<>>}]

InitApp1 ==
    /\ op = "app_1"
    /\ pc = "idle"
    /\ arg \in ImportSettings
    /\ force_playwright = FALSE
    /\ pw_ready = FALSE
    /\ platform = <<>>
    /\ InitCommon

\* the session starts with the URLs the intake added
IntakeApp1 ==
    /\ op = "app_1" /\ pc = "idle" /\ products = <<>> /\ arg.start = <<>>
    /\ \E k \in 1..Len(SessionUrls) :
          products' = [j \in 1..k |-> PendingProduct(SessionUrls[j])]
    /\ UNCHANGED <<exc, pc, i, events, arg>>
    /\ App1Frame

NextApp1 == IntakeApp1 \/ ExtractStart \/ ExtractStep \/ ExtractEnd \/ ImportProducts
SpecApp1 == InitApp1 /\ [][NextApp1]_vars

----------------------------------------------------------------------------
(* BaseScraper._get_page and _get_json (src/scrapers/base_scraper.py:66-104).
   One behaviour is one call with retry = 0 and the recursive calls it makes;
   events logs each request with how the try block ended and each sleep with
   its seconds. *)

\* src/config.py:99
MAX_RETRIES == 3

\* how the try block of lines 70-77 / 90-97 can end: it returns the parsed
\* response, or scraper.get, raise_for_status or the parsing raises
TryOutcomes == {"ok", "ConnectionError", "HTTPError", "ParseError"}

GetOps == {"BaseScraper._get_page", "BaseScraper._get_json"}

\* lines 66-84 retrying while retry <= MAX_RETRIES
GetAttemptOneMore ==
    /\ op \in GetOps /\ pc = "call"
    /\ \E o \in TryOutcomes :
          IF o = "ok"
            THEN /\ events' = Append(events, <<"request", o>>)
                 /\ out' = "parsed response" /\ pc' = "returned" /\ retry' = retry
            ELSE IF retry <= MAX_RETRIES
              THEN /\ events' = events \o << <<"request", o>>, <<"sleep", 2^retry>> >>
                   /\ retry' = retry + 1
                   /\ UNCHANGED <<out, pc>>
              ELSE /\ events' = Append(events, <<"request", o>>)
                   /\ out' = NoneV /\ pc' = "returned" /\ retry' = retry
    /\ UNCHANGED <<op, exc, ret, failedAt, arg, browserVars, importVars, installVars,
                   fetchVars, catVars, products, cache, categories_cache, platform, pipeVars>>

\* lines 66-84 (_get_page) and 86-104 (_get_json): one invocation, up to its
\* return or its recursive call
GetAttempt ==
    /\ op \in GetOps /\ pc = "call"
    /\ \E o \in TryOutcomes :
          IF o = "ok"
            THEN /\ events' = Append(events, <<"request", o>>)
                 /\ out' = "parsed response" /\ pc' = "returned" /\ retry' = retry
            ELSE IF retry < MAX_RETRIES
              THEN /\ events' = events \o << <<"request", o>>, <<"sleep", 2^retry>> >>
                   /\ retry' = retry + 1
                   /\ UNCHANGED <<out, pc>>
              ELSE /\ events' = Append(events, <<"request", o>>)
                   /\ out' = NoneV /\ pc' = "returned" /\ retry' = retry
    /\ UNCHANGED <<op, exc, ret, failedAt, arg, browserVars, importVars, installVars,
                   fetchVars, catVars, products, cache, categories_cache, platform, pipeVars>>

InitGet == \E f \in GetOps : CallInit(f, {SessionUrls[1]})
SpecGet == InitGet /\ [][GetAttempt]_vars

----------------------------------------------------------------------------
(* GomagAPI.get_categories and create_category (src/utils/gomag_api.py:73-175).
   A category list is the sequence of its names; platform is the list the remote
   shop holds.  One behaviour is a sequence of calls on one GomagAPI object;
   out logs each call with what it returned. *)

\* gomag_api.py:78-124 after a cache miss: the login and the two reads succeed
\* in giving a list ("ok") or not ("fail": login failed, no 200, exception)
ReadOutcomes == {"ok", "fail"}

\* gomag_api.py:73-124, given how the read would end: the list returned and the
\* new cache.  An empty cached list is falsy (line 75) and read again.
get_categories(cached, remote, read) ==
    IF cached # NoneV /\ cached # <<>>
      THEN [result |-> cached, cache |-> cached, read |-> "cache"]
    ELSE IF read = "ok"
      THEN [result |-> remote, cache |-> remote, read |-> read]
      ELSE [result |-> <<>>, cache |-> cached, read |-> read]

\* gomag_api.py:128-175: how the POST ends.  "id_in_url": status 200/201/302 and
\* the final URL names the new category (lines 157-160); "created": such a
\* status without an id in the URL; "fail": login failed, other status, exception
PostOutcomes == {"id_in_url", "created", "fail"}

\* one call api.get_categories()
GetCategories ==
    /\ op = "GomagAPI" /\ pc = "call"
    /\ Len(Calls) < MaxCalls
    /\ \E read \in ReadOutcomes :
          LET r == get_categories(categories_cache, platform, read)
          IN  /\ categories_cache' = r.cache
              /\ out' = Append(Calls, [call |-> "get_categories", name |-> NoneV,
                                       result |-> r.result, read |-> r.read])
    /\ UNCHANGED <<op, pc, exc, ret, failedAt, arg, browserVars, events, importVars,
                   installVars, fetchVars, catVars, products, cache, platform, retry,
                   pipeVars>>

\* one call api.create_category(name), lines 126-175
CreateCategory ==
    /\ op = "GomagAPI" /\ pc = "call"
    /\ Len(Calls) < MaxCalls
    /\ \E name \in arg, post \in PostOutcomes, read \in ReadOutcomes :
          CASE post = "fail" ->
                 /\ out' = Append(Calls, [call |-> "create_category", name |-> name,
                                          result |-> NoneV, read |-> "none"])
                 /\ UNCHANGED <<platform, categories_cache>>
            [] post = "id_in_url" ->
                 /\ platform' = Append(platform, name)
                 /\ out' = Append(Calls, [call |-> "create_category", name |-> name,
                                          result |-> "id", read |-> "none"])
                 /\ UNCHANGED categories_cache
            [] post = "created" ->
                 LET remote == Append(platform, name)
                     r == get_categories(NoneV, remote, read)
                 IN  /\ platform' = remote
                     /\ categories_cache' = r.cache
                     /\ out' = Append(Calls, [call |-> "create_category", name |-> name,
                                              result |-> IF read = "ok" THEN "id"
                                                         ELSE "created",
                                              read |-> r.read])
    /\ UNCHANGED <<op, pc, exc, ret, failedAt, arg, browserVars, events, importVars,
                   installVars, fetchVars, catVars, products, cache, retry, pipeVars>>

\* the names a session asks to create
NewCategories == {"Pens", "Mugs"}

InitGomagApi ==
    /\ op = "GomagAPI"
    /\ pc = "call"
    /\ arg = NewCategories
    /\ platform \in {<<>>, <<"Bags">>}
    /\ force_playwright = FALSE
    /\ pw_ready = FALSE
    /\ InitCommon

NextGomagApi == GetCategories \/ CreateCategory
SpecGomagApi == InitGomagApi /\ [][NextGomagApi]_vars

----------------------------------------------------------------------------
(* Calls of _ensure_playwright_chromium_installed within one process
   (src/src/browser.py:17-40, src/src/gomag_ui.py:25-46).  events logs each call
   with its caller and whether it raised. *)

\* browser.py:62, gomag_ui.py:181, gomag_ui.py:254
EnsureCallers == {"render_html_sync", "fetch_categories_async", "import_file_async"}

\* one call: the installer runs unless PW_CHROMIUM_READY is "1", and the flag is
\* set only when the installer exits with code 0
EnsureCall ==
    /\ op = "process" /\ pc = "call"
    /\ Len(events) < MaxCalls
    /\ \E caller \in EnsureCallers, ok \in BOOLEAN :
          /\ installs' = InstallsAfter(pw_ready, installs)
          /\ pw_ready' = ReadyAfter(pw_ready, ok)
          /\ events' = Append(events, <<caller, IF pw_ready' THEN "returned" ELSE "raised">>)
    /\ UNCHANGED <<op, pc, exc, ret, failedAt, browserVars, importVars, fetchVars, catVars,
                   sessionVars, pureVars, pipeVars>>

InitEnsure ==
    /\ op = "process"
    /\ pc = "call"
    /\ arg = NoArg
    /\ force_playwright = FALSE
    /\ pw_ready \in BOOLEAN
    /\ platform = <<>>
    /\ InitCommon

SpecEnsure == InitEnsure /\ [][EnsureCall]_vars

----------------------------------------------------------------------------
(* The product list of a session of app.py (src/app.py:612-735) or of
   app_simple.py (src/app_simple.py:136-199, 284-286).  One behaviour is a
   sequence of button handlers; events logs each handler, an intake with the
   number of URLs it skipped.
   extract_status is a history field: the status the scraper returned. *)

\* app_simple.py:149-153
TestUrls ==
    << "https://www.xdconnects.com/en-gb/bags-travel/anti-theft-backpacks/bobby-hero-regular-anti-theft-backpack-p705.29?variantId=P705.291",
       "https://www.pfconcept.com/en_cz/cover-grs-rpet-anti-theft-backpack-18l-120510.html",
       "https://www.midocean.com/central-europe/us/eur/bags-travel/backpacks/laptop-backpacks/mo2739-03-zid10244354" >>

\* a line of the text area / a cell of the URL column
UrlLines == {"", "https://a.example/p1", " https://a.example/p1 ", TestUrls[2]}

\* app.py:616-620, app_simple.py:140-143
NewProduct(url) == [url |-> url, status |-> "pending", extract_status |-> ""]

\* intake loop without the test of line 651
RECURSIVE AddAll(_, _)
AddAll(list, urls) ==
    IF urls = <<>> THEN list
    ELSE AddAll(Append(list, NewProduct(Head(urls))), Tail(urls))

\* app.py:614-620 and 650-656, app_simple.py:138-143 and 154-159: append each URL
\* that no product of the list has
RECURSIVE AddUrls(_, _)
AddUrls(list, urls) ==
    IF urls = <<>> THEN list
    ELSE AddUrls(IF \E k \in 1..Len(list) : list[k].url = Head(urls)
                   THEN list ELSE Append(list, NewProduct(Head(urls))),
                 Tail(urls))

\* the URLs of an intake that were not appended
Skipped(list, urls) == Len(urls) - (Len(AddUrls(list, urls)) - Len(list))

\* app.py:649, app_simple.py:137: [u.strip() for u in text.split('\n') if u.strip()]
RECURSIVE StrippedLines(_)
StrippedLines(lines) ==
    IF lines = <<>> THEN <<>>
    ELSE (IF StripStr(Head(lines)) # "" THEN <<StripStr(Head(lines))>> ELSE <<>>)
            \o StrippedLines(Tail(lines))

IsApp == op = "app.py"
IsAppSimple == op = "app_simple.py"

AppFrame ==
    UNCHANGED <<op, pc, exc, ret, failedAt, arg, browserVars, importVars, installVars,
                fetchVars, catVars, out, cache, categories_cache, platform, retry, pipeVars>>

\* another handler may run
AppReady == (IsApp \/ IsAppSimple) /\ pc = "call" /\ Len(events) < MaxCalls

\* app.py:612-622: the import button; `if url` skips empty cells
FileImport ==
    /\ IsApp /\ AppReady
    /\ \E cells \in SeqUpTo(UrlLines, MaxInputs) :
          /\ products' = AddUrls(products, SelectSeq(cells, Truthy))
          /\ events' = Append(events, <<"file", Skipped(products, SelectSeq(cells, Truthy))>>)
    /\ AppFrame

\* app.py:647-658, app_simple.py:136-145: the add button
ManualAdd ==
    /\ AppReady
    /\ \E lines \in SeqUpTo(UrlLines, MaxInputs) :
          /\ IsApp => lines # <<>>
          /\ products' = AddUrls(products, StrippedLines(lines))
          /\ events' = Append(events, <<"manual", Skipped(products, StrippedLines(lines))>>)
    /\ AppFrame

\* app_simple.py:148-161
AddTestUrls ==
    /\ IsAppSimple /\ AppReady
    /\ products' = AddUrls(products, TestUrls)
    /\ events' = Append(events, <<"test", Skipped(products, TestUrls)>>)
    /\ AppFrame

\* app.py:684-686, app_simple.py:173-175
Remove ==
    /\ AppReady
    /\ \E k \in 1..Len(products) :
          /\ products' = [j \in 1..(Len(products) - 1) |->
                            IF j < k THEN products[j] ELSE products[j + 1]]
          /\ events' = Append(events, <<"remove", 0>>)
    /\ AppFrame

\* app.py:699-735: every pending product takes what ProductScraper.extract
\* returned (status 'success' or 'error', lines 173-177 and 204-212) and is then
\* set to 'processed' (line 729)
ProcessAll ==
    /\ IsApp /\ AppReady
    /\ \E k \in 1..Len(products) : products[k].status = "pending"
    /\ \E extracted \in [1..Len(products) -> {"success", "error"}] :
          products' = [k \in 1..Len(products) |->
              IF products[k].status = "pending"
                THEN [products[k] EXCEPT !.extract_status = extracted[k],
                                         !.status = "processed"]
                ELSE products[k]]
    /\ events' = Append(events, <<"process", 0>>)
    /\ AppFrame

\* app_simple.py:183-206: every pending product takes what extract_basic_info
\* returned (lines 31-35 and 93-99)
StartExtraction ==
    /\ IsAppSimple /\ AppReady
    /\ \E k \in 1..Len(products) : products[k].status = "pending"
    /\ \E info \in [1..Len(products) -> {"success", "error"}] :
          products' = [k \in 1..Len(products) |->
              IF products[k].status = "pending"
                THEN [products[k] EXCEPT !.extract_status = info[k], !.status = info[k]]
                ELSE products[k]]
    /\ events' = Append(events, <<"extract", 0>>)
    /\ AppFrame

\* app_simple.py:284-286
ClearAll ==
    /\ IsAppSimple /\ AppReady
    /\ products' = <<>>
    /\ events' = Append(events, <<"clear", 0>>)
    /\ AppFrame

InitApp ==
    /\ op \in {"app.py", "app_simple.py"}
    /\ pc = "call"
    /\ arg = NoArg
    /\ force_playwright = FALSE
    /\ pw_ready = FALSE
    /\ platform = <<>>
    /\ InitCommon

NextApp ==
    \/ FileImport \/ ManualAdd \/ AddTestUrls \/ Remove
    \/ ProcessAll \/ StartExtraction \/ ClearAll
SpecApp == InitApp /\ [][NextApp]_vars

----------------------------------------------------------------------------
(* Claims about the merge of process_one_url (checked under SpecProcess) *)

\* the merge has run
Merged == IsProcess /\ (pc = "build" \/ (pc \in Terminal /\ failedAt # "_fetch_html"))

\* what each source offers for each field
StructTitle == IF page.p.present THEN page.p.name ELSE NoneV
StructSku == IF page.p.present THEN page.p.sku ELSE NoneV
StructDesc == IF page.p.present THEN page.p.description ELSE NoneV
StructImages == IF page.p.present THEN page.p.image ELSE <<>>
\* a structured price counts when price and currency are both there and numeric
StructPrice ==
    IF /\ page.p.present
       /\ page.p.price \in {"49,99", "49.99", "12.50"}
       /\ page.p.priceCurrency \notin {NoneV, ""}
      THEN <<ToFloat(page.p.price), Upper(page.p.priceCurrency)>>
      ELSE <<NoPrice, NoneV>>
HeurSku == extract_sku_fallback(page.text_sku, page.url)
HeurTitle == IF Truthy(page.og_title) THEN page.og_title
             ELSE IF Truthy(page.page_title) THEN page.page_title
             ELSE IF Truthy(StructSku) THEN StructSku ELSE HeurSku
HeurDesc == IF Truthy(page.og_description) THEN page.og_description ELSE ""
HeurImages == page.og_images
HeurPrice == page.text_price

\* the first non-empty of three values, in the order given
FirstStr(a, b, c) == IF Truthy(a) THEN a ELSE IF Truthy(b) THEN b ELSE c
FirstList(a, b, c) == IF a # <<>> THEN a ELSE IF b # <<>> THEN b ELSE c
FirstPrice(a, b, c) == IF a[1] # NoPrice THEN a ELSE IF b[1] # NoPrice THEN b ELSE c

\* a stored image list: in order of first occurrence, without empty entries
Stored(images) == Dedup(images)

\* C1 as stated: for every field the merged record holds the first non-empty
\* value in the order structured data > domain rules > heuristics.
C1_StructuredFirst ==
    Merged =>
      /\ data.title = FirstStr(StructTitle, by_rules.title, HeurTitle)
      /\ data.sku = FirstStr(StructSku, by_rules.sku, HeurSku)
      /\ data.description = FirstStr(StructDesc, by_rules.description, HeurDesc)
      /\ data.images = Stored(FirstList(StructImages, by_rules.images, HeurImages))
      /\ <<data.price_val, data.price_cur>>
           = FirstPrice(StructPrice, <<by_rules.price_val, by_rules.price_cur>>, HeurPrice)

\* C1 amended: for every field the merged record holds the first non-empty value
\* in the order domain rules > structured data > heuristics (image lists stored
\* deduplicated without empty entries, price value and currency taken as a pair).
C1_RulesFirst ==
    Merged =>
      /\ data.title = FirstStr(by_rules.title, StructTitle, HeurTitle)
      /\ data.sku = FirstStr(by_rules.sku, StructSku, HeurSku)
      /\ data.description = FirstStr(by_rules.description, StructDesc, HeurDesc)
      /\ data.images = Stored(FirstList(by_rules.images, StructImages, HeurImages))
      /\ <<data.price_val, data.price_cur>>
           = FirstPrice(<<by_rules.price_val, by_rules.price_cur>>, StructPrice, HeurPrice)

\* all three sources decide a field: the rules the title (over a JSON-LD name),
\* JSON-LD the sku, the heuristics the description
C1_Witness ==
    /\ Merged
    /\ Truthy(by_rules.title) /\ Truthy(StructTitle) /\ data.title = by_rules.title
    /\ ~Truthy(by_rules.sku) /\ Truthy(StructSku) /\ data.sku = StructSku
    /\ ~Truthy(by_rules.description) /\ ~Truthy(StructDesc) /\ data.description = "OG desc"

----------------------------------------------------------------------------
(* Claims about import_file_async (checked under Spec / SpecLive) *)

Range(s) == { s[k] : k \in 1..Len(s) }

Count(s, e) == Cardinality({ k \in 1..Len(s) : s[k] = e })

\* position of the first e in s (0 when absent)
Pos(s, e) == IF e \in Range(s) THEN CHOOSE k \in 1..Len(s) :
                                      s[k] = e /\ \A j \in 1..(k - 1) : s[j] # e
             ELSE 0

\* the result check of lines 412-428 has run
Verified == IsImport /\ "after_snapshot" \in Range(events) /\ pc # "verify"

\* the row's text contains "erori"
HasErrorsMarker(row) == "erori" \in Range(row)

\* C2 as stated: whenever the before and after snapshots are textually identical
\* (an unreadable row being the empty snapshot), the run reports no-new-import
\* and never OK.
C2_IdenticalNeverOk ==
    (Verified /\ before_snip = new_snip) =>
        /\ ret # OkMsg
        /\ (pc = "returned" => ret = NoNewImportMsg)

\* C3: Start Import is clicked only after the attachment was confirmed, and a run
\* whose attachment was not confirmed (no input, no input took the file, or the
\* check was negative) fails without a click.
C3_ClickOnlyAfterConfirm ==
    IsImport =>
      /\ ("click" \in Range(events) =>
            /\ has_name /\ uploaded
            /\ 0 < Pos(events, "confirm") /\ Pos(events, "confirm") < Pos(events, "click"))
      /\ ((pc \in Terminal /\ ~has_name) =>
            pc = "raised" /\ "click" \notin Range(events) /\ ~clicked)

\* the click happened, after a confirmation
C3_Witness == IsImport /\ clicked /\ has_name /\ pc = "returned"

\* C4: within one call the Start Import click is attempted at most once; a failed
\* click ends the call with an error, a no-new-import result is returned after
\* exactly one click.
C4_SubmitAtMostOnce ==
    IsImport =>
      /\ Count(events, "click") <= 1
      /\ (("click" \in Range(events) /\ ~clicked /\ pc \in Terminal) => pc = "raised")
      /\ (ret = NoNewImportMsg => Count(events, "click") = 1)

\* a click that failed, and the call over
C4_Witness == IsImport /\ "click" \in Range(events) /\ ~clicked /\ pc = "raised"

\* the order the steps of a run must keep
StepOrder == <<"login", "before_snapshot", "attach", "confirm", "click", "after_snapshot">>

\* events is a prefix of StepOrder
InStepOrder == Len(events) <= Len(StepOrder) /\ \A k \in 1..Len(events) : events[k] = StepOrder[k]

\* C8: the steps of a run come in strict sequence (login, before-snapshot,
\* attachment, confirmation, click, after-snapshot, none without those before it);
\* every run ends, returned or raised but not both; nothing happens after the end.
C8_StrictSequenceAndEnd ==
    /\ [](IsImport => InStepOrder)
    /\ [](IsImport /\ pc \in Terminal => ((pc = "returned") <=> (exc = "" /\ ret # "")))
    /\ (IsImport => <>(pc \in Terminal))
    /\ [][IsImport => pc \notin Terminal]_vars

\* a run that took every step and returned
C8_Witness == IsImport /\ pc = "returned" /\ events = StepOrder

\* C9 as stated: when the snapshots differ and the new row carries the "erori"
\* marker, the result is the finished-with-errors outcome (not the plain success,
\* not no-new-import).
C9_ErrorsReported ==
    (Verified /\ before_snip # new_snip /\ HasErrorsMarker(new_snip)) =>
        ret \notin {OkMsg, NoNewImportMsg}

\* C10 as stated: the strategies are tried in their fixed order, each only after
\* the earlier ones failed and none after one succeeded, and a page without any
\* input[type=file] still gets the file-chooser sweep before the run fails.
C10_ThreeStrategies ==
    IsImport =>
      /\ \A k \in 1..Len(tried) : tried[k].ok => k = Len(tried)
      /\ ((pc \in Terminal /\ n = 0) =>
            \E k \in 1..Len(tried) : tried[k].strategy = "file_chooser")

\* C10 amended: attachment tries only the input[type=file] elements of the page,
\* in document order, the next one only after all earlier ones refused the file
\* and none after one took it; a page without any input[type=file] fails the run
\* with no attempt at all.
C10_FileInputsOnly ==
    IsImport =>
      /\ \A k \in 1..Len(tried) :
            /\ tried[k].strategy = "file_input"
            /\ tried[k].index = k - 1
            /\ tried[k].index < n
            /\ (tried[k].ok => k = Len(tried))
      /\ (uploaded <=> (tried # <<>> /\ tried[Len(tried)].ok))
      /\ ((pc \in Terminal /\ n = 0) => tried = <<>> /\ pc = "raised")

\* the first input refused the file, the second took it, nothing was tried after
C10_Witness ==
    /\ IsImport /\ pc \in Terminal
    /\ tried = <<Attempt(0, FALSE), Attempt(1, TRUE)>>

----------------------------------------------------------------------------
(* Claims about the headless browser and the fetch fallback (checked under Spec) *)

ClaimMarkers == {"captcha", "cloudflare", "enable javascript", "attention required"}

\* blocked/insufficient as the claim defines it
ClaimBlocked(r, minLen) ==
    \/ r.status >= 400
    \/ r.body.len < minLen
    \/ r.body.marks \cap ClaimMarkers # {}

\* C6 as stated: whenever the HTTP GET's answer is blocked/insufficient (short
\* body, status >= 400, anti-bot marker), the fetch goes on to the headless render
\* instead of raising or returning that body.
C6_BlockedEscalates ==
    /\ (IsFetchHtml /\ ~force_playwright /\ resp # NoResp /\ pc \in Terminal
          /\ ClaimBlocked(resp, FetcherMinLen)) => renders > 0
    /\ (IsParse /\ resp # NoResp /\ pc \in Terminal
          /\ ClaimBlocked(resp, ParseMinLen)) => renders > 0

\* C7 as stated: when the fetched page is classified blocked and the render fails
\* too, parse returns no ProductDraft.
C7_NoDraftFromBlockedPage ==
    (IsParse /\ pc \in Terminal /\ blocked /\ render_failed) => ~draft

----------------------------------------------------------------------------
(* Diagnostics on attachment failure *)

\* the three ways attachment fails in import_file_async
AttachFailures == {"no_input", "not_uploaded", "not_attached"}

\* a screenshot and an HTML snapshot under one name are on disk
HasDiagnostics == \E a \in artifacts : {<<a[1], "png">>, <<a[1], "html">>} \subseteq artifacts

\* C11 as stated: whenever attachment fails (no input[type=file], no input takes
\* the file, or the attachment check is negative) a screenshot and an HTML
\* snapshot have been saved by the time the run fails.
C11_DiagnosticsOnAttachFailure ==
    (IsImport /\ failedAt \in AttachFailures) => HasDiagnostics

----------------------------------------------------------------------------
(* Claims about the category list *)

\* the page was read and no strategy finds a name on it: the selector found
\* nothing (else the page is not read), no table row names a category, and no
\* category anchor carries a usable text
NothingFound ==
    /\ cat_html.read
    /\ \A k \in 1..Len(cat_html.rows) :
          cat_html.rows[k] = <<>> \/ Strip(BeforeIdMark(cat_html.rows[k][1])) = <<>>
    /\ \A k \in 1..Len(cat_html.anchors) :
          cat_html.anchors[k] = <<>> \/ TextLen(cat_html.anchors[k]) >= AnchorMaxLen

\* the try block is over
CatDone == IsCategories /\ pc \in {"finally", "aexit"} \cup Terminal

HeaderLabels == { <<"categorie">>, <<"actiuni">> }

\* the category name a table row stands for: its first cell without the "ID:"
\* annotation, whitespace normalised; <<>> for a row without cells
RowName(tds) == IF tds = <<>> THEN <<>> ELSE CollapseWs(Strip(BeforeIdMark(tds[1])))

IsCategoryName(nm) == nm # <<>> /\ LowerText(nm) \notin HeaderLabels

IsAnchorName(txt) == txt # <<>> /\ TextLen(txt) < AnchorMaxLen

\* positions of src holding a name (under Keep) that no earlier kept position
\* holds, compared case-insensitively
FirstOccurrences(src, Keep(_)) ==
    { j \in 1..Len(src) :
        /\ Keep(src[j])
        /\ \A h \in 1..(j - 1) : Keep(src[h]) => LowerText(src[h]) # LowerText(src[j]) }

\* res lists src at the positions F, in increasing order
ListsPositions(res, src, F) ==
    /\ Len(res) = Cardinality(F)
    /\ \A j \in F : res[Cardinality({ h \in F : h <= j })] = src[j]

\* C13 as stated: the result is the first-column names of the table rows, "ID:"
\* suffix removed, header/action label rows left out, case-insensitive
\* duplicates dropped, in order of first occurrence; the anchor texts are used
\* only when the table yields no name.
C13_TableNamesWithoutLabels ==
    Returned("_parse_categories_from_html") =>
      LET names == [k \in 1..Len(arg.rows) |-> RowName(arg.rows[k])]
          T == FirstOccurrences(names, IsCategoryName)
      IN  IF T # {}
            THEN ListsPositions(out, names, T)
            ELSE ListsPositions(out, arg.anchors,
                                FirstOccurrences(arg.anchors, IsAnchorName))

----------------------------------------------------------------------------
(* Claims about the RON price *)

\* the call converts: a price and one of the three currencies are given
Converts ==
    /\ Returned("compute_final_price_ron")
    /\ arg.source_price.present
    /\ arg.currency \in {"RON", "EUR", "GBP", "ron", "eur", "gbp"}

\* price x rate x (1 + markup/100) of a call, in millionths
MarkedUp(a) ==
    a.source_price.cents * (100 + a.markup_percent)
      * (CASE a.currency \in {"RON", "ron"} -> 100
           [] a.currency \in {"EUR", "eur"} -> a.eur_ron
           [] OTHER -> a.gbp_ron)

Max(x, y) == IF x >= y THEN x ELSE y

\* C14 as stated: the result is the smallest N.90 that is >= max(1.90, price x
\* rate x (1 + markup/100)): it ends in .90, is not below that amount, exceeds it
\* by less than 1.00, and does not decrease when the source price grows.
C14_SmallestX90 ==
    Converts =>
      LET target == Max(PriceFloor, MarkedUp(arg)) IN
      /\ out % 100 = 90
      /\ out * 10000 >= target
      /\ out * 10000 - target < Micro
      /\ \A p \in SourcePrices :
            (p.present /\ p.cents <= arg.source_price.cents) =>
                compute_final_price_ron([arg EXCEPT !.source_price = p]) <= out

\* C15: without a price, without a currency, or with a currency other than
\* RON/EUR/GBP the result is exactly missing_price_fallback_ron.
C15_FallbackUnmodified ==
    (Returned("compute_final_price_ron") /\ ~Converts) =>
        out = arg.missing_price_fallback_ron

\* a fallback that is neither of the form N.90 nor above the floor came back
\* for an unknown currency
C15_Witness ==
    /\ Returned("compute_final_price_ron")
    /\ arg.source_price.present /\ arg.currency = "USD"
    /\ arg.missing_price_fallback_ron = 100 /\ out = 100

\* C16 as stated: whatever the price, the currency and the settings, the RON
\* price produced is strictly positive.
C16_PricePositive ==
    Returned("compute_final_price_ron") => out > 0

----------------------------------------------------------------------------
(* Claims about _shorten_sku *)

\* the part of an over-length SKU that is kept
PrefixLen == MaxSkuLen - 1 - HashLen

\* C17 as stated: a SKU longer than 30 characters comes back as at most 30
\* characters, a prefix of the SKU followed by a hash, and two distinct
\* over-length SKUs with the same prefix come back distinct; a SKU of at most 30
\* characters comes back unchanged.
C17_ShortenAnySku ==
    Returned("_shorten_sku") =>
      /\ Len(arg) > MaxSkuLen =>
            /\ Len(out) <= MaxSkuLen
            /\ Len(out) > HashLen
            /\ SubSeq(out, 1, Len(out) - HashLen - 1)
                 = SubSeq(arg, 1, Len(out) - HashLen - 1)
            /\ \A other \in SkuArgs :
                  (other # arg /\ Len(other) > MaxSkuLen
                     /\ SubSeq(other, 1, PrefixLen) = SubSeq(arg, 1, PrefixLen))
                    => _shorten_sku(other) # out
      /\ Len(arg) <= MaxSkuLen => out = arg

\* C17 amended: the SKU is stripped of surrounding whitespace first; a stripped
\* SKU of at most 30 characters is the result; a longer one comes back as its
\* first 21 characters, "-", and the first 8 hex digits of the SHA-1 of the
\* stripped SKU (30 characters), and two over-length SKUs that differ after
\* stripping and share those 21 characters come back distinct.
C17_ShortenStripped ==
    Returned("_shorten_sku") =>
      LET s == StripStr(arg) IN
      /\ Len(s) > MaxSkuLen =>
            /\ Len(out) = MaxSkuLen
            /\ SubSeq(out, 1, PrefixLen) = SubSeq(s, 1, PrefixLen)
            /\ SubSeq(out, PrefixLen + 1, MaxSkuLen) = "-" \o Sha1Hex8(s)
            /\ \A other \in SkuArgs :
                  (StripStr(other) # s /\ Len(StripStr(other)) > MaxSkuLen
                     /\ SubSeq(StripStr(other), 1, PrefixLen) = SubSeq(s, 1, PrefixLen))
                    => _shorten_sku(other) # out
      /\ Len(s) <= MaxSkuLen => out = s

\* an over-length SKU was shortened while another over-length SKU with the same
\* 21 leading characters exists
C17_Witness ==
    /\ Returned("_shorten_sku")
    /\ Len(StripStr(arg)) > MaxSkuLen
    /\ Len(out) = MaxSkuLen
    /\ \E other \in SkuArgs :
          /\ StripStr(other) # StripStr(arg)
          /\ Len(StripStr(other)) > MaxSkuLen
          /\ SubSeq(StripStr(other), 1, PrefixLen) = SubSeq(StripStr(arg), 1, PrefixLen)

----------------------------------------------------------------------------
(* Claims about the SKU and title of a product (checked under SpecProcess) *)

\* extract_generic has returned
Extracted == IsProcess /\ failedAt # "_fetch_html" /\ pc \in {"merge", "build"} \cup Terminal

\* the product has been built
ProductBuilt == IsProcess /\ failedAt # "_fetch_html" /\ pc \in Terminal

NonEmpty(v) == v # NoneV /\ v # ""

\* neither the page nor the URL offers a SKU: no JSON-LD sku, no SKU pattern in
\* the HTML, no product code in the URL path
NoSkuOffered ==
    /\ ~(page.p.present /\ NonEmpty(page.p.sku))
    /\ page.text_sku = NoneV
    /\ PathCode(page.url) = NoneV

----------------------------------------------------------------------------
(* Claims about the fallback SKU *)

\* C19 as stated: the fallback SKU is a function of the URL only: two runs of
\* the program on the same URL produce the same fallback SKU.
C19_SameAcrossRuns ==
    (op = "fallback_sku" /\ pc = "returned") => out[1] = out[2]

----------------------------------------------------------------------------
(* Claims about the image lists (checked under SpecProcess) *)

\* extract_by_rules has returned
RulesExtracted ==
    IsProcess /\ failedAt # "_fetch_html" /\ pc \in {"generic", "merge", "build"} \cup Terminal

NoDuplicates(images) ==
    \A j, k \in 1..Len(images) : j # k => images[j] # images[k]

\* images lists entries of src, each once, ordered by their first position in src
FirstOccurrenceOrder(images, src) ==
    /\ NoDuplicates(images)
    /\ \A k \in 1..Len(images) : images[k] \in Range(src)
    /\ \A j, k \in 1..Len(images) : j < k => Pos(src, images[j]) < Pos(src, images[k])

\* the image URLs extract_generic starts from
GenericImageSource == IF StructImages # <<>> THEN StructImages ELSE HeurImages

\* C20: the images of the record of extract_by_rules, of the record of
\* extract_generic and of their merge hold no URL twice and keep the URLs in order
\* of first occurrence.
C20_ImagesUnique ==
    /\ RulesExtracted =>
          FirstOccurrenceOrder(by_rules.images,
                               [k \in 1..Len(by_rules.image_attrs) |->
                                   StripStr(by_rules.image_attrs[k])])
    /\ Extracted => FirstOccurrenceOrder(generic.images, GenericImageSource)
    /\ Merged =>
          /\ NoDuplicates(data.images)
          /\ data.images \in {by_rules.images, generic.images}

\* both extractors met repeated URLs and the merged list came from the rules
C20_Witness ==
    /\ Merged
    /\ by_rules.image_attrs = <<"r.jpg", " r.jpg", "", "r2.jpg", "r.jpg">>
    /\ page.p.image = <<"l.jpg", "", "l.jpg">>
    /\ generic.images = <<"l.jpg">>
    /\ data.images = <<"r.jpg", "r2.jpg">>

----------------------------------------------------------------------------
(* Claims about the translation (checked under SpecTranslate) *)

Configured(key) == Truthy(key)

Providers(c) == [k \in 1..Len(c.requests) |-> c.requests[k].provider]

Failed(c) == \A k \in 1..Len(c.requests) : c.requests[k].outcome # "ok"

\* C21: translate_to_ro asks DeepL first and OpenAI only when DeepL is not
\* configured or raised, stops at the first translation, returns the text itself
\* when every configured provider failed or none is configured, and never raises.
C21_ProviderChain ==
    op = "translate_to_ro" =>
       /\ exc = ""
       /\ \A j \in 1..Len(Calls) :
             LET c == Calls[j]
             IN  /\ Providers(c) \in {<<>>, <<"deepl">>, <<"openai">>, <<"deepl", "openai">>}
                 /\ (Truthy(c.text) /\ Configured(arg.DEEPL_API_KEY))
                       => Providers(c)[1] = "deepl"
                 /\ "openai" \in Range(Providers(c))
                       => \/ ~Configured(arg.DEEPL_API_KEY)
                          \/ c.requests[1] = Request("deepl", "raise")
                 /\ Failed(c) => c.result = c.text
                 /\ ~Failed(c) =>
                       /\ c.requests[Len(c.requests)].outcome = "ok"
                       /\ c.result = Translated(Providers(c)[Len(c.requests)], c.text)

\* both providers are configured and both raised: the text comes back
C21_Witness ==
    /\ op = "translate_to_ro"
    /\ \E j \in 1..Len(Calls) :
          /\ Calls[j].text = "Color"
          /\ Calls[j].requests = <<Request("deepl", "raise"), Request("openai", "raise")>>
          /\ Calls[j].result = "Color"

\* C22: within one run no provider is asked twice for the same text.
C22_TranslatedOnce ==
    \A k \in 1..Len(events) : Count(events, events[k]) <= 1

----------------------------------------------------------------------------
(* Claims about the export columns (checked under SpecExport) *)

\* C23: for a list of drafts and for a DataFrame, the columns of the table
\* returned are exactly the template's header list, in template order.
C23_ColumnsAreTemplate ==
    (Returned("to_gomag_dataframe") /\ out # ValueError)
        => out = _load_template_headers(arg.template)

----------------------------------------------------------------------------
(* Claims about the app_1.py session (checked under SpecApp1) *)

\* the outcome the running or finished batch logged for product k ("" = not attempted)
AttemptOf(k) ==
    IF \E e \in Range(events) : e[1] = k
      THEN (CHOOSE e \in Range(events) : e[1] = k)[2] ELSE ""

InBatch == op = "app_1" /\ pc \in {"loop", "done", "raised"}

\* C24: in extract_products a failed scrape or an exception marks only that
\* product 'error'; the batch is never aborted, every product that was not
\* 'success' at its start is attempted, and at its end every product is
\* 'success' or 'error'.
C24_BatchNeverAborts ==
    InBatch =>
       /\ exc = "" /\ pc # "raised"
       /\ Len(products) = Len(arg.start)
       /\ \A k \in 1..Len(products) :
             /\ AttemptOf(k) = "" => products[k] = arg.start[k]
             /\ AttemptOf(k) \in {"none", "raise"} =>
                   products[k] = [arg.start[k] EXCEPT !.status = "error"]
             /\ AttemptOf(k) = "scraped" => products[k].status = "success"
             /\ pc = "done" =>
                   /\ products[k].status \in {"success", "error"}
                   /\ arg.start[k].status # "success" => AttemptOf(k) # ""

\* a batch ended in which the first scrape raised and the second product was
\* still extracted
C24_Witness ==
    /\ op = "app_1" /\ pc = "done"
    /\ events = <<<<1, "raise">>, <<2, "scraped">>>>
    /\ products[1].status = "error" /\ products[2].status = "success"

\* C28: after any number of import runs the price of a product is its extracted
\* price x (1 + markup/100) x currency_rate.
C28_MarkupAppliedOnce ==
    op = "app_1" =>
       \A k \in 1..Len(products) :
          (products[k].imports > 0 /\ products[k].extracted # 0)
             => products[k].price
                   = Marked(products[k].extracted, arg.markup, arg.currency_rate)

----------------------------------------------------------------------------
(* Claims about the retries of BaseScraper (checked under SpecGet) *)

RequestsMade == SelectSeq(events, LAMBDA e : e[1] = "request")

SleepsMade == SelectSeq(events, LAMBDA e : e[1] = "sleep")

----------------------------------------------------------------------------
(* Claims about the category cache of GomagAPI (checked under SpecGomagApi) *)

\* C26: the get_categories() that follows a successful create_category(name)
\* returns a list that holds the created category (unless its own read of the
\* platform fails).
C26_FreshAfterCreate ==
    op = "GomagAPI" =>
       \A j \in 1..(Len(Calls) - 1) :
          (/\ Calls[j].call = "create_category" /\ Calls[j].result # NoneV
           /\ Calls[j + 1].call = "get_categories" /\ Calls[j + 1].read # "fail")
             => Calls[j].name \in Range(Calls[j + 1].result)

----------------------------------------------------------------------------
(* Claims about the Chromium installer (checked under SpecEnsure) *)

\* C27: whatever the calls of _ensure_playwright_chromium_installed within one
\* process and however the installation ends, "playwright install chromium" is
\* run at most once.
C27_InstallsAtMostOnce ==
    op = "process" => installs <= 1

----------------------------------------------------------------------------
(* Claims about the sessions of app.py and app_simple.py (checked under SpecApp) *)

\* C29: in app.py a product whose extraction returned status 'error' never has
\* status 'processed', the status of the products offered for export.
C29_FailedNeverProcessed ==
    IsApp => \A k \in 1..Len(products) :
                products[k].extract_status = "error" => products[k].status # "processed"

\* C30: whatever the handlers run, no two products of the list have the same URL.
C30_UniqueUrls ==
    (IsApp \/ IsAppSimple) =>
       \A j, k \in 1..Len(products) : j # k => products[j].url # products[k].url

\* after the test URLs the add button was given one new URL twice (one of the
\* two lines padded with blanks): one was appended, one skipped
C30_Witness ==
    /\ IsAppSimple
    /\ events = << <<"test", 0>>, <<"manual", 1>> >>
    /\ Len(products) = 4
    /\ products[4].url = "https://a.example/p1"

====
